---- MODULE Spec2Model ----
(***************************************************************************)
(* A model of crates/agent-workspace/src/launcher.rs: the reset-to-ref     *)
(* script and its wrapper, the clone-if-absent scripts, and the three      *)
(* `auth` providers.                                                       *)
(*                                                                         *)
(* Text is modelled as a sequence of lexemes: a word (letters and digits), *)
(* or one of the single characters the code looks at (" ", "/", ".", "-"). *)
(* "origin/main" is <<"origin", "/", "main">>, the empty string is <<>>.   *)
(* An unset environment variable or absent Option is Unset.                *)
(***************************************************************************)
EXTENDS Integers, Sequences, FiniteSets, TLC

Unset == <<"<unset>">>

\* str::trim on a lexeme sequence: leading and trailing whitespace removed.
RECURSIVE TrimStart(_)
TrimStart(s) ==
    IF s /= <<>> /\ Head(s) = " " THEN TrimStart(Tail(s)) ELSE s

RECURSIVE TrimEnd(_)
TrimEnd(s) ==
    IF s /= <<>> /\ s[Len(s)] = " " THEN TrimEnd(SubSeq(s, 1, Len(s) - 1)) ELSE s

Trim(s) == TrimEnd(TrimStart(s))

\* Position of the first "/" of s, 0 when there is none.
FirstSlash(s) ==
    IF \E i \in 1..Len(s) : s[i] = "/"
    THEN CHOOSE i \in 1..Len(s) : s[i] = "/" /\ \A j \in 1..(i - 1) : s[j] /= "/"
    ELSE 0

\* bash ${s%%/*}: the longest suffix starting at a "/" removed.
BeforeFirstSlash(s) ==
    IF FirstSlash(s) = 0 THEN s ELSE SubSeq(s, 1, FirstSlash(s) - 1)

\* bash ${s#*/}: the shortest prefix ending in a "/" removed.
AfterFirstSlash(s) ==
    IF FirstSlash(s) = 0 THEN s ELSE SubSeq(s, FirstSlash(s) + 1, Len(s))

Last(s) == s[Len(s)]

(***************************************************************************)
(* The git repository the reset script works on.                           *)
(***************************************************************************)
Origin == <<"origin">>
Main == <<"main">>
Master == <<"master">>
FeatX == <<"feat", "/", "x">>
Branches == {Main, Master, FeatX}

\* Short name of the remote-tracking ref of branch b of remote r.
RemoteRef(r, b) == r \o <<"/">> \o b

\* Commits: the tip a branch has upstream, a commit made locally, or none.
NoCommit == [tip |-> <<>>]
LocalCommit == [tip |-> <<"local">>]
Tip(b) == [tip |-> b]

\* DEFAULT_REF, and the script's own default for an empty second argument.
DEFAULT_REF == RemoteRef(Origin, Main)

\* repo_dir arguments: empty, a directory without .git, a git work tree.
PlainDir == "/work/plain"
RepoDir == "/work/repo"
RepoDirArgs == {"", PlainDir, RepoDir}
HasGitEntry(dir) == dir = RepoDir

\* refspec arguments.
RefArgs ==
    { <<>>,
      RemoteRef(Origin, Main),
      RemoteRef(Origin, Master),
      RemoteRef(Origin, FeatX),
      Main,
      <<"/">> \o Main,
      Origin \o <<"/">>,
      RemoteRef(<<"upstream">>, Main) }

\* Argument pairs: every refspec on the git work tree; a valid and an invalid
\* refspec on the directory without .git; an empty repo_dir.
ResetArgs ==
    {[dir |-> RepoDir, ref |-> r] : r \in RefArgs}
    \cup {[dir |-> PlainDir, ref |-> r] : r \in {RemoteRef(Origin, Main), Main}}
    \cup {[dir |-> "", ref |-> RemoteRef(Origin, Main)]}

VARIABLES
    \* --- reset_repo_in_container / RESET_REPO_SCRIPT
    rpc,        \* position of the script
    rargs,      \* [dir, ref]: the arguments of the current run
    server,     \* branches the remote `origin` has upstream
    rrefs,      \* branches with a remote-tracking ref refs/remotes/origin/<b>
    rhead,      \* short name refs/remotes/origin/HEAD points at, <<>> if unset
    heads,      \* local branches: branch -> commit
    cur,        \* branch checked out, <<>> when HEAD is detached
    dirty,      \* tracked files modified
    untracked,  \* kinds of untracked entries in the work tree
    resolved,   \* the script's $resolved
    coform,     \* checkout form taken: "existing" | "create"
    rlog,       \* git commands run by the current run and how each ended, in order
    rerr,       \* diagnostics the current run wrote to stderr
    rcause,     \* exit point the current run took
    rresult,    \* what reset_repo_in_container returned
    rstart,     \* a run repeating a successful one: the work tree it began in
    rprev,      \* cause and result of the run before the current one
    \* --- clone_extra_repo / setup_private_repo
    kfn,        \* which of the two functions this destination belongs to
    kpc,        \* position of the setup script
    dest,       \* [kind, rev]: what is at the clone destination
    upstream,   \* revision the repository at clone_url is at
    zlink,      \* what /opt/zsh-kit/.private is
    kstart,     \* dest when the current call began
    kcloned,    \* the current call ran git clone
    kout,       \* what the current call printed on stdout
    kerr,       \* what the current call printed on stderr
    kresult,    \* what the current call returned
    kkilled,    \* a call of this behaviour was killed while cloning
    kprev,      \* start, cloned and result of the call before the current one
    \* --- run_auth
    aprov,      \* the provider: github, codex or gpg
    ain,        \* flag, environment and host tools this process runs with
    cstate,     \* the workspace container: absent, stopped or running
    apc,        \* position of run_auth
    amode,      \* auth_mode of run_auth_github
    atoken,     \* chosen_token of run_auth_github
    asource,    \* chosen_source of run_auth_github
    aprofile,   \* profile of run_auth_codex
    akey,       \* key of run_auth_gpg
    alog,       \* what the run did outside the process, in order
    aerr,       \* what the run printed on stderr
    acause,     \* why the run returned
    aresult,    \* the exit code run_auth returned
    ctools,     \* what the container has to store a GitHub token: gh, git, none
    applied,    \* the current run has put the credential in the container
    \* --- run_create
    crin,       \* the parsed arguments of this create
    crcont,     \* the created workspace's container: absent, stopped, running
    crpc,       \* position of run_create
    cri,        \* index of the extra repo handled next
    crlog,      \* what the run did outside the process, in order
    crresult,   \* the exit code run_create returned
    \* --- run_reset_work_repos
    win,        \* the arguments of this reset work-repos
    wcont,      \* the workspace container: absent, stopped or running
    wpc,        \* position of run_reset_work_repos
    wdepth,     \* parsed.depth, as printed in decimal
    wrepos,     \* the repositories the listing returned
    wi,         \* index of the repository reset next
    wfailed,    \* the counter `failed`
    wlog,       \* what the run did outside the process, in order
    werr,       \* what the run printed on stderr
    wresult,    \* the exit code run_reset_work_repos returned
    \* --- workspace names: normalize_workspace_name_for_create and
    \*     resolve_workspace_container_name_str
    nin,        \* [name, form, agent_prefix, codex_prefix]: the name and the environment
    nstore,     \* names docker has a container for
    npc,        \* position of the call
    nvariants,  \* what workspace_name_variants returned for the name
    nname,      \* normalize_workspace_name_for_create of the name
    nws,        \* parsed.workspace_name
    nfwd,       \* what parse_create_args forwarded for --name
    nname2,     \* normalize_workspace_name_for_create of nname
    nres,       \* what resolve_workspace_container_name_str returned
    nfound,     \* docker_container_exists of nres
    \* --- parse_repo_spec
    pin,        \* the input of the parser and the repository it was written for
    ppc,        \* position of the call
    pspec,      \* what parse_repo_spec returned
    \* --- parse_create_args and the launcher call of run_create
    gin,        \* [items, args]: the command line as written and as passed
    gpc,        \* position of run_create
    gparse,     \* what parse_create_args returned
    glaunch,    \* the argument lists the launcher was invoked with, in order
    gresult,    \* what run_create returned before the launcher answered
    \* --- the file fallback of run_auth_codex
    xin,        \* [profile, secret_dir, home, auth_file]: profile and environment
    xexist,     \* the paths that are files on the host
    xunread,    \* those of them that cannot be read
    xpc,        \* position of run_auth_codex after ensure_container_running
    xlist,      \* fallback_files
    xidx,       \* how many entries of fallback_files the loop has passed
    xlog,       \* the files the loop opened, in order, with what became of each
    xchosen,    \* the file whose content was synced into the container
    xresult,    \* what run_auth_codex returned
    \* --- the subcommands that work inside a workspace container
    din,        \* [cmd, execs, yes, answer, dir, listing]: one invocation
    dstate,     \* the container: absent, stopped or running
    dpc,        \* position of the subcommand
    dseen,      \* the container as ensure_container_running found it
    densured,   \* the container ensure_container_running returned Ok for
    drepos,     \* the repositories the subcommand is about to reset
    di,         \* how many of them the loop has passed
    dfailed,    \* how many resets failed (reset work-repos)
    dasked,     \* the confirmation prompt was shown
    dlog,       \* the docker commands issued, in order
    dresult     \* what the subcommand returned

resetVars ==
    << rpc, rargs, server, rrefs, rhead, heads, cur, dirty, untracked, resolved,
       coform, rlog, rerr, rcause, rresult, rstart, rprev >>

cloneVars ==
    << kfn, kpc, dest, upstream, zlink, kstart, kcloned, kout, kerr, kresult,
       kkilled, kprev >>

authVars ==
    << aprov, ain, cstate, apc, amode, atoken, asource, aprofile, akey, alog,
       aerr, acause, aresult, ctools, applied >>

createVars == << crin, crcont, crpc, cri, crlog, crresult >>

workVars ==
    << win, wcont, wpc, wdepth, wrepos, wi, wfailed, wlog, werr, wresult >>

nameVars ==
    << nin, nstore, npc, nvariants, nname, nws, nfwd, nname2, nres, nfound >>

repoVars == << pin, ppc, pspec >>

argVars == << gin, gpc, gparse, glaunch, gresult >>

codexVars == << xin, xexist, xunread, xpc, xlist, xidx, xlog, xchosen, xresult >>

cmdVars ==
    << din, dstate, dpc, dseen, densured, drepos, di, dfailed, dasked, dlog,
       dresult >>

vars == << resetVars, cloneVars, authVars, createVars, workVars, nameVars, repoVars, argVars, codexVars, cmdVars >>


(***************************************************************************)
(* Bounds.                                                                 *)
(***************************************************************************)
\* Revisions the repository behind clone_url goes through.
MaxRev == 2

(***************************************************************************)
(* RESET_REPO_SCRIPT (launcher.rs 15-74), run by reset_repo_in_container.  *)
(***************************************************************************)
GitFailCodes == {1, 128}

\* The script's $ref, $remote and $branch (lines 19, 28, 29).
ScriptRef(ref) == IF ref = <<>> THEN DEFAULT_REF ELSE ref
ScriptRemote(ref) == BeforeFirstSlash(ScriptRef(ref))
ScriptBranch(ref) == AfterFirstSlash(ScriptRef(ref))

\* Line 30: the refspec is rejected.
InvalidRef(ref) ==
    \/ ScriptRemote(ref) = ScriptRef(ref)
    \/ ScriptRemote(ref) = <<>>
    \/ ScriptBranch(ref) = <<>>

\* git show-ref --verify --quiet refs/remotes/<name>
RemoteRefExists(refs, name) == \E b \in refs : name = RemoteRef(Origin, b)

\* git symbolic-ref -q --short refs/remotes/<remote>/HEAD || true
DefaultRef(remote, head) == IF remote = Origin THEN head ELSE <<>>

\* The commit a remote-tracking ref points at.
CommitOf(ref) == Tip(AfterFirstSlash(ref))

ErrMsg(text, ref) == [level |-> "error", text |-> text, ref |-> ref]
WarnMsg(text, ref) == [level |-> "warn", text |-> text, ref |-> ref]

\* ResolveRef with the two fallbacks tried in the opposite order.
ResolveRefMasterFirst(remote, branch, refs, head) ==
    LET req == RemoteRef(remote, branch)
        def == DefaultRef(remote, head)
        master == RemoteRef(remote, Master)
    IN  IF RemoteRefExists(refs, req)
        THEN [ok |-> TRUE, ref |-> req, msgs |-> <<>>]
        ELSE IF RemoteRefExists(refs, master)
        THEN [ok |-> TRUE, ref |-> master,
              msgs |-> << WarnMsg("not found; using", master) >>]
        ELSE IF def /= <<>> /\ RemoteRefExists(refs, def)
        THEN [ok |-> TRUE, ref |-> def,
              msgs |-> << WarnMsg("not found; using (from HEAD)", def) >>]
        ELSE [ok |-> FALSE, ref |-> req,
              msgs |-> << ErrMsg("remote branch not found", req) >>]

\* Lines 37-50: the ref the reset goes to, and what is written to stderr.
ResolveRef(remote, branch, refs, head) ==
    LET req == RemoteRef(remote, branch)
        def == DefaultRef(remote, head)
        master == RemoteRef(remote, Master)
    IN  IF RemoteRefExists(refs, req)
        THEN [ok |-> TRUE, ref |-> req, msgs |-> <<>>]
        ELSE IF def /= <<>> /\ RemoteRefExists(refs, def)
        THEN [ok |-> TRUE, ref |-> def,
              msgs |-> << WarnMsg("not found; using (from HEAD)", def) >>]
        ELSE IF RemoteRefExists(refs, master)
        THEN [ok |-> TRUE, ref |-> master,
              msgs |-> << WarnMsg("not found; using", master) >>]
        ELSE [ok |-> FALSE, ref |-> req,
              msgs |-> << ErrMsg("remote branch not found", req) >>]

\* Line 52.
TargetBranch(ref) == AfterFirstSlash(ref)

\* Line 55: which checkout form the script takes.
CheckoutForm(hs, target) ==
    IF hs[target] /= NoCommit THEN "existing" ELSE "create"

\* A clean that removes nothing.
CleanFdKeepsAll(u) == u

\* git clean -fd removes untracked files and directories, but leaves an
\* untracked directory that is itself a git repository (that takes -ff).
CleanFd(u) == u \ {"plain"}

\* ResetResult reporting every failure with the same status.
ResetResultOneStatus(code) ==
    IF code = 0
    THEN [ok |-> TRUE, err |-> "none", code |-> 0]
    ELSE [ok |-> FALSE, err |-> "exit", code |-> 1]

\* reset_repo_in_container, lines 2124-2131: the script's status as a Result.
ResetResult(code) ==
    IF code = 0
    THEN [ok |-> TRUE, err |-> "none", code |-> 0]
    ELSE [ok |-> FALSE, err |-> "exit", code |-> code]

\* Line 2123: docker exec could not be spawned.
SpawnError == [ok |-> FALSE, err |-> "spawn", code |-> 0]

NoResult == [ok |-> FALSE, err |-> "pending", code |-> 0]
NoPrev == [cause |-> "none", result |-> NoResult, err |-> <<>>]
NoTree == [heads |-> <<>>, cur |-> <<>>, dirty |-> FALSE, untracked |-> {},
           rrefs |-> {}]
NoStart == [again |-> FALSE, tree |-> NoTree]

WorkTree ==
    [heads |-> heads, cur |-> cur, dirty |-> dirty, untracked |-> untracked,
     rrefs |-> rrefs]

treeVars == << heads, cur, dirty, untracked >>

\* Line 18: the status bash ends with when ${1:?...} finds no repo_dir; 1 or
\* 127, depending on the bash of the container.
MissingArgCodes == {1, 127}

\* The script ends with status `code`; reset_repo_in_container returns.
Exits(code, cause, msgs) ==
    /\ rpc' = "returned"
    /\ rcause' = cause
    /\ rresult' = ResetResult(code)
    /\ rerr' = rerr \o msgs

Goto(pc) ==
    /\ rpc' = pc
    /\ UNCHANGED << rcause, rresult, rerr >>

\* No reset is running and none has run.
ResetIdle ==
    /\ rpc = "idle"
    /\ rargs = [dir |-> "", ref |-> <<>>]
    /\ server = {}
    /\ rrefs = {}
    /\ rhead = <<>>
    /\ heads = [b \in Branches |-> NoCommit]
    /\ cur = <<>>
    /\ dirty = FALSE
    /\ untracked = {}
    /\ resolved = <<>>
    /\ coform = "none"
    /\ rlog = <<>>
    /\ rerr = <<>>
    /\ rcause = "none"
    /\ rresult = NoResult
    /\ rstart = NoStart
    /\ rprev = NoPrev

\* No clone is running and none has run.
CloneIdle ==
    /\ kfn = "extra"
    /\ kpc = "idle"
    /\ dest = [kind |-> "absent", rev |-> 0]
    /\ upstream = 1
    /\ zlink = "other"
    /\ kstart = [kind |-> "absent", rev |-> 0]
    /\ kcloned = FALSE
    /\ kout = <<>>
    /\ kerr = <<>>
    /\ kresult = NoResult
    /\ kkilled = FALSE
    /\ kprev = [start |-> "none", cloned |-> FALSE, ok |-> FALSE]

\* No auth command is running and none has run.
AuthIdle ==
    /\ aprov = "none"
    /\ ain = [provider |-> "none"]
    /\ cstate = "absent"
    /\ apc = "idle"
    /\ amode = Unset
    /\ atoken = Unset
    /\ asource = "none"
    /\ aprofile = Unset
    /\ akey = Unset
    /\ alog = <<>>
    /\ aerr = <<>>
    /\ acause = "none"
    /\ aresult = "pending"
    /\ ctools = "gh"
    /\ applied = FALSE

\* No create is running and none has run.
CreateIdle ==
    /\ crin = [show_help |-> FALSE, no_extras |-> FALSE, private |-> Unset,
               extras |-> <<>>]
    /\ crcont = "absent"
    /\ crpc = "idle"
    /\ cri = 1
    /\ crlog = <<>>
    /\ crresult = "pending"

\* No reset work-repos is running and none has run.
WorkIdle ==
    /\ win = [depth |-> Unset, yes |-> FALSE, show_help |-> FALSE,
              container |-> Unset]
    /\ wcont = "absent"
    /\ wpc = "idle"
    /\ wdepth = Unset
    /\ wrepos = <<>>
    /\ wi = 1
    /\ wfailed = 0
    /\ wlog = <<>>
    /\ werr = <<>>
    /\ wresult = "pending"

\* No workspace name is being normalised or looked up.
NamesIdle ==
    /\ nin = [name |-> <<>>, form |-> "none", agent_prefix |-> Unset,
              codex_prefix |-> Unset]
    /\ nstore = {}
    /\ npc = "idle"
    /\ nvariants = <<>>
    /\ nname = <<>>
    /\ nws = Unset
    /\ nfwd = <<>>
    /\ nname2 = <<>>
    /\ nres = <<>>
    /\ nfound = FALSE

\* No repository reference is being parsed.
RepoIdle ==
    /\ pin = [input |-> <<>>, default_host |-> <<>>, form |-> "none",
              host |-> <<>>, owner |-> <<>>, repo |-> <<>>, suffix |-> <<>>]
    /\ ppc = "idle"
    /\ pspec = [valid |-> FALSE, owner |-> <<>>, repo |-> <<>>,
                owner_repo |-> <<>>, clone_url |-> <<>>]

\* No create command line is being translated.
ArgsIdle ==
    /\ gin = [items |-> <<>>, args |-> <<>>]
    /\ gpc = "idle"
    /\ gparse = [ok |-> FALSE, err |-> <<>>,
                 parsed |-> [show_help |-> FALSE, no_extras |-> FALSE,
                             no_work_repos |-> FALSE, private_repo |-> Unset,
                             workspace_name |-> Unset, primary_repo |-> Unset,
                             extra_repos |-> <<>>, forwarded_args |-> <<>>]]
    /\ glaunch = <<>>
    /\ gresult = "pending"

CodexIdle ==
    /\ xin = [profile |-> Unset, secret_dir |-> Unset, home |-> Unset,
              auth_file |-> Unset]
    /\ xexist = {}
    /\ xunread = {}
    /\ xpc = "idle"
    /\ xlist = <<>>
    /\ xidx = 0
    /\ xlog = <<>>
    /\ xchosen = Unset
    /\ xresult = "pending"

CmdIdle ==
    /\ din = [cmd |-> "none", container |-> Unset, execs |-> <<>>,
              yes |-> "", answer |-> Unset, listing |-> <<>>]
    /\ dstate = "absent"
    /\ dpc = "idle"
    /\ dseen = "none"
    /\ densured = Unset
    /\ drepos = <<>>
    /\ di = 0
    /\ dfailed = 0
    /\ dasked = FALSE
    /\ dlog = <<>>
    /\ dresult = "pending"

InitReset ==
    /\ CmdIdle
    /\ CodexIdle
    /\ ArgsIdle
    /\ RepoIdle
    /\ NamesIdle
    /\ WorkIdle
    /\ CreateIdle
    /\ CloneIdle
    /\ AuthIdle
    /\ rpc = "idle"
    /\ rargs = [dir |-> "", ref |-> <<>>]
    /\ server \in SUBSET Branches
    /\ rrefs = Branches
    /\ rhead \in {<<>>} \cup {RemoteRef(Origin, b) : b \in Branches}
    /\ heads \in {[b \in Branches |-> IF b = Main THEN c ELSE NoCommit] :
                     c \in {NoCommit, LocalCommit}}
    /\ cur \in {<<>>} \cup {b \in Branches : heads[b] /= NoCommit}
    /\ dirty \in BOOLEAN
    /\ untracked \in {{}, {"plain"}, {"plain", "nested_repo"}}
    /\ resolved = <<>>
    /\ coform = "none"
    /\ rlog = <<>>
    /\ rerr = <<>>
    /\ rcause = "none"
    /\ rresult = NoResult
    /\ rstart = NoStart
    /\ rprev = NoPrev

\* reset_repo_in_container is called; the script runs up to its first git
\* command (lines 18-33).
ResetBegin(dir, ref) ==
    /\ rpc \in {"idle", "returned"}
    /\ rargs' = [dir |-> dir, ref |-> ref]
    /\ rstart' = IF rpc = "returned" /\ rresult.ok
                    /\ rargs = [dir |-> dir, ref |-> ref]
                 THEN [again |-> TRUE, tree |-> WorkTree]
                 ELSE NoStart
    /\ resolved' = <<>>
    /\ coform' = "none"
    /\ rlog' = <<>>
    /\ UNCHANGED << server, rrefs, rhead, treeVars >>
    /\ \/ /\ rpc' = "returned"
          /\ rcause' = "spawn"
          /\ rresult' = SpawnError
          /\ rerr' = <<>>
       \/ IF dir = ""
          THEN /\ rpc' = "returned"
               /\ rcause' = "missing_arg"
               /\ \E code \in MissingArgCodes : rresult' = ResetResult(code)
               /\ rerr' = << ErrMsg("missing repo_dir", <<>>) >>
          ELSE IF ~HasGitEntry(dir)
          THEN /\ rpc' = "returned"
               /\ rcause' = "not_a_repo"
               /\ rresult' = ResetResult(1)
               /\ rerr' = << ErrMsg("not a git repo", <<>>) >>
          ELSE IF InvalidRef(ref)
          THEN /\ rpc' = "returned"
               /\ rcause' = "invalid_ref"
               /\ rresult' = ResetResult(2)
               /\ rerr' = << ErrMsg("invalid ref (expected remote/branch)",
                                    ScriptRef(ref)) >>
          ELSE /\ rpc' = "fetch1"
               /\ rcause' = "none"
               /\ rresult' = NoResult
               /\ rerr' = <<>>

\* git fetch --prune -- <remote>: only `origin` is a configured remote; a
\* fetch that succeeds makes the remote-tracking refs those of the server.
FetchCanSucceed(remote) == remote = Origin

\* A git command of the script and whether it succeeded.
Ran(cmd, ok) == [cmd |-> cmd, ok |-> ok]

\* Lines 16 and 35: under set -e the script ends when the retry fails too.
AfterSecondFetchFailedGoOn == "resolve"
AfterSecondFetchFailed == "exit"

\* Line 35, first attempt (output suppressed).
Fetch1 ==
    /\ rpc = "fetch1"
    /\ UNCHANGED << rargs, server, rhead, treeVars, resolved, coform, rstart >>
    /\ \/ /\ FetchCanSucceed(ScriptRemote(rargs.ref))
          /\ rlog' = Append(rlog, Ran("fetch", TRUE))
          /\ rrefs' = server
          /\ Goto("resolve")
       \/ /\ rlog' = Append(rlog, Ran("fetch", FALSE))
          /\ UNCHANGED rrefs
          /\ Goto("fetch2")

\* Line 35, the retry after a failed first attempt.
Fetch2 ==
    /\ rpc = "fetch2"
    /\ UNCHANGED << rargs, server, rhead, treeVars, resolved, coform, rstart >>
    /\ \/ /\ FetchCanSucceed(ScriptRemote(rargs.ref))
          /\ rlog' = Append(rlog, Ran("fetch", TRUE))
          /\ rrefs' = server
          /\ Goto("resolve")
       \/ /\ rlog' = Append(rlog, Ran("fetch", FALSE))
          /\ UNCHANGED rrefs
          /\ IF AfterSecondFetchFailed = "exit"
             THEN \E code \in GitFailCodes : Exits(code, "fetch", <<>>)
             ELSE Goto("resolve")

\* Lines 37-53.
Resolve ==
    /\ rpc = "resolve"
    /\ LET r == ResolveRef(ScriptRemote(rargs.ref), ScriptBranch(rargs.ref),
                           rrefs, rhead)
       IN  /\ rlog' = Append(rlog, Ran("show-ref", r.ok))
           /\ IF r.ok
              THEN /\ resolved' = r.ref
                   /\ rpc' = "checkout1"
                   /\ rerr' = rerr \o r.msgs
                   /\ UNCHANGED << rcause, rresult >>
              ELSE /\ UNCHANGED resolved
                   /\ Exits(1, "branch_missing", r.msgs)
    /\ UNCHANGED << rargs, server, rrefs, rhead, treeVars, coform, rstart >>

\* git checkout --force <target>, or git checkout --force -B <target> <ref>.
\* Local modifications are discarded; untracked entries stay.
CheckedOut(form, target, ref) ==
    /\ cur' = target
    /\ dirty' = FALSE
    /\ heads' = IF form = "create"
                THEN [heads EXCEPT ![target] = CommitOf(ref)]
                ELSE heads
    /\ UNCHANGED untracked

\* Lines 56-59 and 61-64: where the script goes when the first checkout
\* attempt fails.
AfterCheckoutFailedGiveUp == "give_up"
AfterCheckoutFailed == "clean_retry"

\* Lines 55-56 and 60-61: the first checkout attempt.
Checkout1 ==
    /\ rpc = "checkout1"
    /\ LET target == TargetBranch(resolved)
           form == CheckoutForm(heads, target)
       IN  /\ coform' = form
           /\ \/ /\ rlog' = Append(rlog, Ran("checkout", TRUE))
                 /\ CheckedOut(form, target, resolved)
                 /\ Goto("hard_reset")
              \/ /\ rlog' = Append(rlog, Ran("checkout", FALSE))
                 /\ UNCHANGED treeVars
                 /\ IF AfterCheckoutFailed = "clean_retry"
                    THEN Goto("clean_retry")
                    ELSE \E code \in GitFailCodes : Exits(code, "checkout", <<>>)
    /\ UNCHANGED << rargs, server, rrefs, rhead, resolved, rstart >>

\* Lines 57 and 62: git clean -fd >/dev/null 2>&1 || true
CleanRetry ==
    /\ rpc = "clean_retry"
    /\ \/ /\ rlog' = Append(rlog, Ran("clean", TRUE))
          /\ untracked' = CleanFd(untracked)
       \/ /\ rlog' = Append(rlog, Ran("clean", FALSE))
          /\ UNCHANGED untracked
    /\ Goto("checkout2")
    /\ UNCHANGED << rargs, server, rrefs, rhead, heads, cur, dirty, resolved,
                    coform, rstart >>

\* Lines 58 and 63: the second checkout attempt, in the same form.
Checkout2 ==
    /\ rpc = "checkout2"
    /\ \/ /\ rlog' = Append(rlog, Ran("checkout", TRUE))
          /\ CheckedOut(coform, TargetBranch(resolved), resolved)
          /\ Goto("hard_reset")
       \/ /\ rlog' = Append(rlog, Ran("checkout", FALSE))
          /\ UNCHANGED treeVars
          /\ \E code \in GitFailCodes : Exits(code, "checkout", <<>>)
    /\ UNCHANGED << rargs, server, rrefs, rhead, resolved, coform, rstart >>

\* git reset --hard <ref>: the current branch and the work tree become <ref>.
HardResetTo(ref) ==
    /\ heads' = IF cur = <<>> THEN heads ELSE [heads EXCEPT ![cur] = CommitOf(ref)]
    /\ dirty' = FALSE
    /\ UNCHANGED cur

\* Lines 67-70: git-reset-remote when it is installed (it resets and cleans
\* in one command), otherwise git reset --hard.
HardReset ==
    /\ rpc = "hard_reset"
    /\ UNCHANGED << rargs, server, rrefs, rhead, resolved, coform, rstart >>
    /\ \/ /\ HardResetTo(resolved)
          /\ rlog' = Append(rlog, Ran("git-reset-remote", TRUE))
          /\ untracked' = CleanFd(untracked)
          /\ Exits(0, "ok", <<>>)
       \/ /\ UNCHANGED treeVars
          /\ rlog' = Append(rlog, Ran("git-reset-remote", FALSE))
          /\ \E code \in GitFailCodes : Exits(code, "reset", <<>>)
       \/ /\ HardResetTo(resolved)
          /\ rlog' = Append(rlog, Ran("reset", TRUE))
          /\ UNCHANGED untracked
          /\ Goto("final_clean")
       \/ /\ UNCHANGED treeVars
          /\ rlog' = Append(rlog, Ran("reset", FALSE))
          /\ \E code \in GitFailCodes : Exits(code, "reset", <<>>)

\* Lines 71-72: git clean -fd, then the script ends.
FinalClean ==
    /\ rpc = "final_clean"
    /\ UNCHANGED << rargs, server, rrefs, rhead, heads, cur, dirty, resolved,
                    coform, rstart >>
    /\ \/ /\ untracked' = CleanFd(untracked)
          /\ rlog' = Append(rlog, Ran("clean", TRUE))
          /\ Exits(0, "ok", <<>>)
       \/ /\ UNCHANGED untracked
          /\ rlog' = Append(rlog, Ran("clean", FALSE))
          /\ \E code \in GitFailCodes : Exits(code, "clean", <<>>)

ResetStep ==
    \/ \E a \in ResetArgs : ResetBegin(a.dir, a.ref)
    \/ Fetch1
    \/ Fetch2
    \/ Resolve
    \/ Checkout1
    \/ CleanRetry
    \/ Checkout2
    \/ HardReset
    \/ FinalClean

\* The run before the current one, kept for comparing what two runs return
\* when it failed at one of the script's own checks.
ObservePrev ==
    rprev' = IF rpc = "returned"
             THEN IF rcause \in {"not_a_repo", "invalid_ref", "branch_missing"}
                  THEN [cause |-> rcause, result |-> rresult, err |-> rerr]
                  ELSE NoPrev
             ELSE rprev

NextReset == ResetStep /\ UNCHANGED << rprev, cloneVars, authVars, createVars, workVars, nameVars, repoVars, argVars, codexVars, cmdVars >>

SpecReset == InitReset /\ [][NextReset]_vars

\* The same program from one work tree, with the previous run remembered.
InitResetPair ==
    /\ InitReset
    /\ heads = [b \in Branches |-> NoCommit]
    /\ ~dirty
    /\ untracked = {}

NextResetPair == ResetStep /\ ObservePrev /\ UNCHANGED << cloneVars, authVars, createVars, workVars, nameVars, repoVars, argVars, codexVars, cmdVars >>

SpecResetPair == InitResetPair /\ [][NextResetPair]_vars


(***************************************************************************)
(* Properties of the reset.                                                *)
(***************************************************************************)
\* The current run has passed the resolution of lines 37-50.
PastResolve ==
    \/ rpc \in {"checkout1", "clean_retry", "checkout2", "hard_reset", "final_clean"}
    \/ rpc = "returned" /\ rcause \in {"branch_missing", "checkout", "reset", "clean", "ok"}

Requested == RemoteRef(ScriptRemote(rargs.ref), ScriptBranch(rargs.ref))
TrackingRef(name) == RemoteRefExists(rrefs, name)
Warnings == {i \in 1..Len(rerr) : rerr[i].level = "warn"}
Errors == {i \in 1..Len(rerr) : rerr[i].level = "error"}

ResetSucceeded == rpc = "returned" /\ rresult.ok

\* What every successful reset leaves, apart from the untracked entries.
OnResolvedRef ==
    /\ cur = TargetBranch(resolved)
    /\ heads[cur] = CommitOf(resolved)
    /\ ~dirty
    /\ rstart.again => WorkTree = rstart.tree

\* C2 as claimed: a successful reset leaves the branch of the resolved ref
\* checked out at that ref's commit with no untracked entry at all, and a
\* reset repeated with the remote unchanged changes nothing.
C2_NoUntrackedLeft ==
    ResetSucceeded => OnResolvedRef /\ untracked = {}

\* C2 amended: as above, except that untracked directories that are git
\* repositories themselves are left in place (git clean -fd skips them).
C2_ResetToRef ==
    ResetSucceeded => OnResolvedRef /\ untracked \subseteq {"nested_repo"}

\* A repeated reset succeeded in a work tree that began with untracked entries.
C2_Witness ==
    /\ ResetSucceeded
    /\ rstart.again
    /\ untracked = {"nested_repo"}
    /\ heads[Master] = Tip(Master)

OperatorFailures == {"not_a_repo", "invalid_ref", "branch_missing"}

\* Two consecutive runs failed for two different operator-actionable reasons.
TwoOperatorFailures ==
    /\ rpc = "returned"
    /\ rcause \in OperatorFailures
    /\ rprev.cause \in OperatorFailures
    /\ rcause /= rprev.cause

\* C3 as claimed: the three operator-actionable failures are returned to the
\* caller as errors that differ from one another.
C3_DistinctReturnedErrors ==
    TwoOperatorFailures => rresult /= rprev.result

FailureText(cause) ==
    IF cause = "not_a_repo" THEN "not a git repo"
    ELSE IF cause = "invalid_ref" THEN "invalid ref (expected remote/branch)"
    ELSE "remote branch not found"

\* C3 amended: each of the three failures makes reset_repo_in_container
\* return an error and writes a message of its own to stderr; the returned
\* error carries only the exit status, 2 for an invalid refspec and 1 for both
\* a missing .git and a missing remote branch, so the returned value tells the
\* invalid refspec from the other two but not those two from each other.
C3_DistinctMessages ==
    /\ rpc = "returned" /\ rcause \in OperatorFailures =>
        /\ rresult = [ok |-> FALSE, err |-> "exit",
                      code |-> IF rcause = "invalid_ref" THEN 2 ELSE 1]
        /\ Cardinality(Errors) = 1
        /\ \A i \in Errors : rerr[i].text = FailureText(rcause)
    /\ TwoOperatorFailures =>
        /\ Last(rerr).text /= Last(rprev.err).text
        /\ rresult = rprev.result <=> "invalid_ref" \notin {rcause, rprev.cause}

\* A missing remote branch reported right after a missing .git.
C3_Witness ==
    /\ TwoOperatorFailures
    /\ rcause = "branch_missing"
    /\ rprev.cause = "not_a_repo"


IsFetch(e) == e.cmd = "fetch"
IsCheckout(e) == e.cmd = "checkout"
Fetches == SelectSeq(rlog, IsFetch)
Checkouts == SelectSeq(rlog, IsCheckout)

\* The script of the current run got as far as its first git command.
ReachedFetch == rpc = "fetch1" \/ rlog # <<>>

\* A fetch leaves the work tree alone.
FetchKeepsTree == rpc \in {"fetch1", "fetch2"} => (UNCHANGED treeVars)

\* C24: a reset fetches at most twice, the second time exactly when the first
\* fetch failed; when both fail the reset fails, having run no other git
\* command, and no fetch touches the work tree.
C24_FetchRetryCeiling ==
    /\ [](/\ Len(Fetches) <= 2
          /\ Len(Fetches) = 2 => ~Fetches[1].ok
          /\ (Len(Fetches) = 1 /\ ~Fetches[1].ok) => rpc = "fetch2"
          /\ (Len(Fetches) = 2 /\ ~Fetches[2].ok) =>
                /\ rpc = "returned"
                /\ rcause = "fetch"
                /\ ~rresult.ok
                /\ rlog = Fetches)
    /\ [][FetchKeepsTree]_vars

\* Both fetches failed and the run ended with the work tree still modified.
C24_Witness ==
    /\ rpc = "returned"
    /\ rcause = "fetch"
    /\ Len(Fetches) = 2
    /\ dirty
    /\ untracked # {}
    /\ heads[Main] = LocalCommit

\* The command after the first checkout of the log, "none" when it is the last.
AfterFirstCheckout(k) ==
    LET i == CHOOSE n \in 1..Len(rlog) :
                 IsCheckout(rlog[n]) /\ \A m \in 1..(n - 1) : ~IsCheckout(rlog[m])
    IN  IF i + k <= Len(rlog) THEN rlog[i + k].cmd ELSE "none"

\* A checkout step: the form it takes and what it makes of the branch.
CheckoutTakesForm ==
    /\ rpc = "checkout1" =>
          coform' = IF heads[TargetBranch(resolved)] # NoCommit
                    THEN "existing" ELSE "create"
    /\ rpc = "checkout2" => coform' = coform
    /\ (rpc \in {"checkout1", "checkout2"} /\ rpc' = "hard_reset") =>
          /\ cur' = TargetBranch(resolved)
          /\ coform' = "existing" => heads' = heads
          /\ coform' = "create" =>
                heads'[TargetBranch(resolved)] = CommitOf(resolved)

\* C25: the checkout takes the existing local branch when there is one and
\* creates it from the resolved ref otherwise; it is attempted at most twice
\* in the same form, with one clean between the attempts exactly when the
\* first attempt failed, whatever that clean returns, and the reset fails
\* when the second attempt fails.
C25_CheckoutCleanRetry ==
    /\ [](/\ Len(Checkouts) <= 2
          /\ (Len(Checkouts) >= 1 /\ Checkouts[1].ok) =>
                /\ Len(Checkouts) = 1
                /\ AfterFirstCheckout(1) \notin {"clean", "checkout"}
          /\ (Len(Checkouts) >= 1 /\ ~Checkouts[1].ok) =>
                /\ rpc # "clean_retry" => AfterFirstCheckout(1) = "clean"
                /\ rpc \notin {"clean_retry", "checkout2"} =>
                      /\ Len(Checkouts) = 2
                      /\ AfterFirstCheckout(2) = "checkout"
          /\ (Len(Checkouts) = 2 /\ ~Checkouts[2].ok) =>
                /\ rpc = "returned"
                /\ rcause = "checkout"
                /\ ~rresult.ok)
    /\ [][CheckoutTakesForm]_vars

\* A reset succeeded on the second checkout attempt, creating the branch,
\* after a clean that failed.
C25_Witness ==
    /\ rpc = "returned"
    /\ rresult.ok
    /\ coform = "create"
    /\ Len(Checkouts) = 2
    /\ \E i \in 1..Len(rlog) : rlog[i] = Ran("clean", FALSE) /\ i < Len(rlog) - 1

\* A refspec with text before its first "/" and text after it.
WellFormedRef(ref) == FirstSlash(ref) > 1 /\ FirstSlash(ref) < Len(ref)

\* The script of the current run was started on a directory.
ScriptRan == rpc # "idle" /\ rcause # "spawn" /\ rargs.dir # ""

RefusedAsInvalid ==
    /\ rpc = "returned"
    /\ rcause = "invalid_ref"
    /\ rresult = [ok |-> FALSE, err |-> "exit", code |-> 2]
    /\ rlog = <<>>
    /\ \E i \in Errors : rerr[i].text = "invalid ref (expected remote/branch)"

RefusedAsNotARepo ==
    /\ rpc = "returned"
    /\ rcause = "not_a_repo"
    /\ rlog = <<>>

\* C26 as stated: on a git work tree the reset reaches the fetch exactly for
\* the refspecs with text on both sides of their first "/", and refuses all
\* others as invalid before any git command; without .git it fails as not a
\* repo whatever the refspec.
C26_RefspecValidated ==
    /\ (ScriptRan /\ HasGitEntry(rargs.dir)) =>
          IF WellFormedRef(rargs.ref)
          THEN ReachedFetch /\ rcause # "invalid_ref"
          ELSE RefusedAsInvalid
    /\ (ScriptRan /\ ~HasGitEntry(rargs.dir)) => RefusedAsNotARepo

\* Apart from the empty refspec, which line 19 replaces by origin/main, the
\* origin/main and reaches the fetch.
C26_RefspecOrDefault ==
    /\ (ScriptRan /\ HasGitEntry(rargs.dir)) =>
          IF WellFormedRef(rargs.ref) \/ rargs.ref = <<>>
          THEN ReachedFetch /\ rcause # "invalid_ref"
          ELSE RefusedAsInvalid
    /\ (ScriptRan /\ ~HasGitEntry(rargs.dir)) => RefusedAsNotARepo

\* A refspec with nothing after its "/" was refused on a git work tree.
C26_Witness ==
    /\ RefusedAsInvalid
    /\ HasGitEntry(rargs.dir)
    /\ rargs.ref = Origin \o <<"/">>

(***************************************************************************)
(* clone_extra_repo (launcher.rs 513-544) and setup_private_repo (481-511),*)
(* both run through run_container_setup_script (444-479).                  *)
(***************************************************************************)
\* What can be at the destination: nothing; something that is not a clone
\* (a file, or a directory without .git); the directory git clone has just
\* created; a directory whose .git is only partly written; a complete clone
\* at revision rev.
Absent == [kind |-> "absent", rev |-> 0]
Occupied == [kind |-> "occupied", rev |-> 0]
EmptyDir == [kind |-> "empty_dir", rev |-> 0]
PartialGit == [kind |-> "partial_git", rev |-> 0]
CloneAt(rev) == [kind |-> "clone", rev |-> rev]

\* Lines 490, 523: [[ -d "$dest/.git" ]].
HasDotGitNever(d) == FALSE
HasDotGit(d) == d.kind \in {"partial_git", "clone"}

\* Lines 496, 528: [[ -e "$dest" ]].
DestExistsNever(d) == FALSE
DestExists(d) == d.kind # "absent"

AlreadyPresent == "repo already present"
PullNote == "+ pull"
CloneNote == "+ clone"
SkipWarning == "warn: exists but is not a git repo; skipping clone"

\* Lines 471-478: a zero exit status is Ok(()), any other an Err.
SetupResult(code) ==
    IF code = 0
    THEN [ok |-> TRUE, err |-> "none", code |-> 0]
    ELSE [ok |-> FALSE, err |-> "exit", code |-> code]

\* The process was killed: nothing is returned.
Killed == [ok |-> FALSE, err |-> "killed", code |-> 0]

NoCall == [start |-> "none", cloned |-> FALSE, ok |-> FALSE]

\* The script exits with `code`.
KExits(code) ==
    /\ kpc' = "returned"
    /\ kresult' = SetupResult(code)

KGoto(pc) ==
    /\ kpc' = pc
    /\ kresult' = NoResult

InitClone ==
    /\ CmdIdle
    /\ CodexIdle
    /\ ArgsIdle
    /\ RepoIdle
    /\ NamesIdle
    /\ WorkIdle
    /\ CreateIdle
    /\ ResetIdle
    /\ AuthIdle
    /\ kfn \in {"extra", "private"}
    /\ kpc = "idle"
    /\ dest \in {Absent, Occupied, CloneAt(1)}
    /\ upstream = 1
    /\ zlink \in {"other", "link"}
    /\ kstart = Absent
    /\ kcloned = FALSE
    /\ kout = <<>>
    /\ kerr = <<>>
    /\ kresult = NoResult
    /\ kkilled = FALSE
    /\ kprev = NoCall

\* clone_extra_repo / setup_private_repo is called: the script runs up to
\* its first git command or its exit.
CloneCall ==
    /\ kpc \in {"idle", "returned", "killed"}
    /\ kprev' = IF kpc = "idle" THEN NoCall
                ELSE [start |-> kstart.kind, cloned |-> kcloned,
                      ok |-> kresult.ok]
    /\ kstart' = dest
    /\ UNCHANGED << kfn, dest, upstream, zlink, kkilled >>
    /\ \/ \* line 460: docker exec could not be spawned
          /\ kpc' = "returned"
          /\ kresult' = SpawnError
          /\ kcloned' = FALSE
          /\ kout' = <<>>
          /\ kerr' = <<>>
       \/ \* lines 490-494, 523-526
          /\ HasDotGit(dest)
          /\ kcloned' = FALSE
          /\ kerr' = <<>>
          /\ IF kfn = "extra"
             THEN kout' = << AlreadyPresent >> /\ KExits(0)
             ELSE kout' = << PullNote >> /\ KGoto("pull")
       \/ \* lines 496-499, 528-531
          /\ ~HasDotGit(dest)
          /\ DestExists(dest)
          /\ kcloned' = FALSE
          /\ kout' = <<>>
          /\ kerr' = << SkipWarning >>
          /\ KExits(0)
       \/ \* lines 501-502, 533-535
          /\ ~HasDotGit(dest)
          /\ ~DestExists(dest)
          /\ kout' = << CloneNote >>
          /\ kerr' = <<>>
          /\ \/ kcloned' = TRUE /\ KGoto("clone_start")
             \/ \* line 534: mkdir -p of the parent fails under set -e
                kfn = "extra" /\ kcloned' = FALSE /\ KExits(1)

\* Line 492: git pull --ff-only || true, then exit 0.
Pull ==
    /\ kpc = "pull"
    /\ \/ dest.kind = "clone" /\ dest' = CloneAt(upstream)
       \/ dest' = dest
    /\ KExits(0)
    /\ UNCHANGED << kfn, upstream, zlink, kstart, kcloned, kout, kerr,
                    kkilled, kprev >>

\* Lines 502, 535: git clone creates the destination directory.
GitCloneMkdir ==
    /\ kpc = "clone_start"
    /\ \/ /\ dest.kind \in {"absent", "empty_dir"}
          /\ dest' = EmptyDir
          /\ KGoto("clone_dir")
       \/ dest' = dest /\ KExits(128)
    /\ UNCHANGED << kfn, upstream, zlink, kstart, kcloned, kout, kerr,
                    kkilled, kprev >>

\* git clone starts to write .git.
GitCloneInit ==
    /\ kpc = "clone_dir"
    /\ dest' = PartialGit
    /\ KGoto("clone_git")
    /\ UNCHANGED << kfn, upstream, zlink, kstart, kcloned, kout, kerr,
                    kkilled, kprev >>

\* git clone fetches and checks out, or fails and removes what it created.
GitCloneFetch ==
    /\ kpc = "clone_git"
    /\ \/ /\ dest' = CloneAt(upstream)
          /\ IF kfn = "extra" THEN KExits(0) ELSE KGoto("link")
       \/ dest' = Absent /\ KExits(128)
    /\ UNCHANGED << kfn, upstream, zlink, kstart, kcloned, kout, kerr,
                    kkilled, kprev >>

\* Lines 503-506: /opt/zsh-kit/.private is made a link to ~/.private; rm
\* and ln may each fail (|| true).
Link ==
    /\ kpc = "link"
    /\ IF zlink = "link"
       THEN zlink' = zlink
       ELSE zlink' \in {"link", "absent", zlink}
    /\ KExits(0)
    /\ UNCHANGED << kfn, dest, upstream, kstart, kcloned, kout, kerr,
                    kkilled, kprev >>

\* The script is killed while it runs. git clone removes what it created
\* when it can catch the signal, and leaves it when it cannot.
Kill ==
    /\ kpc \in {"pull", "clone_start", "clone_dir", "clone_git", "link"}
    /\ kpc' = "killed"
    /\ kresult' = Killed
    /\ kkilled' = (kkilled \/ kpc \in {"clone_start", "clone_dir", "clone_git"})
    /\ \/ dest' = dest
       \/ kpc \in {"clone_dir", "clone_git"} /\ dest' = Absent
    /\ UNCHANGED << kfn, upstream, zlink, kstart, kcloned, kout, kerr, kprev >>

\* Somebody pushes to the repository behind clone_url.
UpstreamPush ==
    /\ upstream < MaxRev
    /\ upstream' = upstream + 1
    /\ UNCHANGED << kfn, kpc, dest, zlink, kstart, kcloned, kout, kerr,
                    kresult, kkilled, kprev >>

NextClone ==
    /\ \/ CloneCall
       \/ Pull
       \/ GitCloneMkdir
       \/ GitCloneInit
       \/ GitCloneFetch
       \/ Link
       \/ Kill
       \/ UpstreamPush
    /\ UNCHANGED << resetVars, authVars, createVars, workVars, nameVars, repoVars, argVars, codexVars, cmdVars >>

SpecClone == InitClone /\ [][NextClone]_vars

(***************************************************************************)
(* Properties of the clone.                                                *)
(***************************************************************************)
CloneReturned == kpc = "returned" /\ kresult # SpawnError

\* What the destination was when the current call began.
StartedWithDotGit == kstart.kind \in {"partial_git", "clone"}
StartedOccupied == kstart.kind \in {"occupied", "empty_dir"}

\* C4 as stated: when destination/.git exists at the call, the call
\* succeeds, does not clone and leaves the destination as it was; and of
\* two successive calls of which the first started from an absent
\* destination and succeeded, exactly the first cloned.
C4_EnsureClonedNoChange ==
    /\ (CloneReturned /\ StartedWithDotGit)
          => (kresult.ok /\ ~kcloned /\ dest = kstart)
    /\ (CloneReturned /\ kprev.start = "absent" /\ kprev.ok)
          => (kprev.cloned /\ ~kcloned)

\* C4 (amended): when destination/.git exists at the call, the call
\* succeeds without cloning and without a warning; clone_extra_repo leaves
\* the destination as it was, setup_private_repo runs git pull --ff-only,
\* which leaves it as it was or moves a complete clone forward to a
\* revision of upstream.  Of two successive calls of which the first started from an
\* absent destination and succeeded, exactly the first cloned.
C4_EnsureClonedIdempotent ==
    /\ (CloneReturned /\ StartedWithDotGit)
          => /\ kresult.ok
             /\ ~kcloned
             /\ kerr = <<>>
             /\ kout = IF kfn = "extra" THEN << AlreadyPresent >>
                                     ELSE << PullNote >>
             /\ dest.kind = kstart.kind
             /\ IF kfn = "private" /\ kstart.kind = "clone"
                THEN dest.rev \in kstart.rev .. upstream
                ELSE dest.rev = kstart.rev
    /\ (CloneReturned /\ kprev.start = "absent" /\ kprev.ok)
          => (kprev.cloned /\ ~kcloned)

\* A second call has returned after a first that cloned into an absent
\* destination, and a call of setup_private_repo has pulled a new revision.
C4_Witness ==
    /\ CloneReturned
    /\ kprev.start = "absent" /\ kprev.ok /\ kprev.cloned
    /\ kfn = "private"
    /\ kstart = CloneAt(1) /\ kresult.ok /\ ~kcloned
    /\ dest = CloneAt(2)

\* C5 as stated: when the destination exists and is not a git repository
\* at the call, the call fails, and the destination is left as it was.
C5_OccupiedFails ==
    (CloneReturned /\ StartedOccupied)
       => (~kresult.ok /\ dest = kstart)

\* C5 (amended): when the destination exists and is not a git repository
\* at the call, the call prints the warning "exists but is not a git repo;
\* skipping clone", which no other case prints, does not clone, leaves the
\* destination as it was, and returns success.
C5_OccupiedSkipped ==
    /\ (CloneReturned /\ StartedOccupied)
          => /\ kerr = << SkipWarning >>
             /\ ~kcloned
             /\ dest = kstart
             /\ kresult.ok
    /\ (CloneReturned /\ kerr = << SkipWarning >>)
          => StartedOccupied

\* A call on an occupied destination has returned.
C5_Witness ==
    /\ CloneReturned
    /\ kstart = Occupied
    /\ kerr = << SkipWarning >>
    /\ dest = Occupied

\* C6: once a clone has been interrupted, a re-run of the same clone
\* operation that returns success has left the destination a complete clone.
C6_RetryConverges ==
    (kkilled /\ CloneReturned /\ kresult.ok) => dest.kind = "clone"

(***************************************************************************)
(* run_auth (launcher.rs 849-886) and its three providers.  Each run is a  *)
(* process of its own: the flag, the environment and the host's tools are  *)
(* fixed when it starts.                                                   *)
(***************************************************************************)
\* Lines 2319-2326.
trimmed_nonempty(v) ==
    IF v = Unset \/ Trim(v) = <<>> THEN Unset ELSE Trim(v)

\* .filter(|v| !v.trim().is_empty()) on an Option: the value itself is kept.
FilterNonBlank(v) ==
    IF v = Unset \/ Trim(v) = <<>> THEN Unset ELSE v

\* a.or_else(|| b)
OrElse(a, b) == IF a # Unset THEN a ELSE b

Auto == <<"auto">>
ModeValues ==
    { Unset, <<>>, <<" ">>, Auto, <<"env">>, <<"gh">>, <<"keyring">>,
      <<"none">>, <<"bogus">> }
GhTokenValues == { Unset, <<>>, <<" ">>, <<"abc">> }
GithubTokenValues == { Unset, <<" ">>, <<"def">> }

\* gh on the host: whether it exists, whether `gh auth token` succeeds, and
\* what it writes (the newline at the end is whitespace).
ProbeValues ==
    { [exists |-> FALSE, ok |-> FALSE, out |-> <<>>],
      [exists |-> TRUE, ok |-> FALSE, out |-> <<>>],
      [exists |-> TRUE, ok |-> TRUE, out |-> <<" ">>],
      [exists |-> TRUE, ok |-> TRUE, out |-> <<"ghtok", " ">>] }

GithubInputs ==
    [ provider : {"github"}, agent : ModeValues, codex : ModeValues,
      gh_token : GhTokenValues, github_token : GithubTokenValues,
      probe : ProbeValues ]

\* Lines 895-899.
AuthMode(in) ==
    LET mode == OrElse(FilterNonBlank(in.agent), in.codex)
    IN  IF mode = Unset THEN Auto ELSE mode

\* Lines 901-908.
EnvToken(in) ==
    OrElse(FilterNonBlank(in.gh_token), FilterNonBlank(in.github_token))

\* Lines 910-924.
KeyringToken(in) ==
    IF in.probe.exists /\ in.probe.ok
    THEN trimmed_nonempty(in.probe.out)
    ELSE Unset

WarnFallback == "warn: no gh keyring token found; falling back to GH_TOKEN/GITHUB_TOKEN"
ErrUnknownMode == "error: unknown AGENT_WORKSPACE_AUTH (expected: auto|gh|env|none)"
ErrModeNone == "error: AGENT_WORKSPACE_AUTH=none; no token to apply"
ErrNoToken == "error: no GitHub token found (gh keyring or GH_TOKEN/GITHUB_TOKEN)"
HintToken == "hint: run 'gh auth login' or export GH_TOKEN/GITHUB_TOKEN"

\* Lines 926-952: the token, its source, and whether the warning is printed.
ChooseTokenEnvFirst(mode, env_token, keyring_token) ==
    IF mode = <<"none">>
    THEN [known |-> TRUE, token |-> Unset, source |-> "none", warn |-> FALSE]
    ELSE IF mode \in {<<"env">>, Auto, <<>>}
    THEN [known |-> TRUE, token |-> env_token, source |-> "env", warn |-> FALSE]
    ELSE IF mode \in {<<"gh">>, <<"keyring">>}
    THEN IF keyring_token # Unset
         THEN [known |-> TRUE, token |-> keyring_token, source |-> "gh",
               warn |-> FALSE]
         ELSE [known |-> TRUE, token |-> env_token, source |-> "env",
               warn |-> TRUE]
    ELSE [known |-> FALSE, token |-> Unset, source |-> "none", warn |-> FALSE]
ChooseToken(mode, env_token, keyring_token) ==
    IF mode = <<"none">>
    THEN [known |-> TRUE, token |-> Unset, source |-> "none", warn |-> FALSE]
    ELSE IF mode = <<"env">>
    THEN [known |-> TRUE, token |-> env_token, source |-> "env", warn |-> FALSE]
    ELSE IF mode \in {<<"gh">>, <<"keyring">>}
    THEN IF keyring_token # Unset
         THEN [known |-> TRUE, token |-> keyring_token, source |-> "gh",
               warn |-> FALSE]
         ELSE [known |-> TRUE, token |-> env_token, source |-> "env",
               warn |-> TRUE]
    ELSE IF mode \in {Auto, <<>>}
    THEN IF keyring_token # Unset
         THEN [known |-> TRUE, token |-> keyring_token, source |-> "gh",
               warn |-> FALSE]
         ELSE [known |-> TRUE, token |-> env_token, source |-> "env",
               warn |-> FALSE]
    ELSE [known |-> FALSE, token |-> Unset, source |-> "none", warn |-> FALSE]

\* The run returns EXIT_RUNTIME.
AFails(cause, msgs) ==
    /\ apc' = "returned"
    /\ acause' = cause
    /\ aresult' = "EXIT_RUNTIME"
    /\ aerr' = aerr \o msgs

\* The run returns 0.
ASucceeds(msgs) ==
    /\ apc' = "returned"
    /\ acause' = "none"
    /\ aresult' = "0"
    /\ aerr' = aerr \o msgs

\* Lines 888-969, up to ensure_container_running.
GithubDecide ==
    LET mode == AuthMode(ain)
        choice == ChooseToken(mode, EnvToken(ain), KeyringToken(ain))
        warning == IF choice.warn THEN << WarnFallback >> ELSE <<>>
    IN  /\ amode' = mode
        /\ atoken' = choice.token
        /\ asource' = choice.source
        /\ UNCHANGED << aprofile, akey >>
        /\ IF ~choice.known
           THEN /\ apc' = "returned"
                /\ acause' = "unknown_mode"
                /\ aresult' = "EXIT_RUNTIME"
                /\ aerr' = << ErrUnknownMode >>
           ELSE IF choice.token = Unset
           THEN /\ apc' = "returned"
                /\ acause' = IF mode = <<"none">> THEN "mode_none" ELSE "no_token"
                /\ aresult' = "EXIT_RUNTIME"
                /\ aerr' = warning \o
                      << IF mode = <<"none">> THEN ErrModeNone ELSE ErrNoToken,
                         HintToken >>
           ELSE /\ apc' = "ensure"
                /\ acause' = "none"
                /\ aresult' = "pending"
                /\ aerr' = warning

ProfileFlagValues ==
    { Unset, <<" ">>, <<"work">>, <<" ", "work", " ">>, <<"a", "/", "b">>,
      <<".", ".">>, <<"a", " ", "b">>, <<"a", ".", "b">> }
ProfileAgentValues == { Unset, <<>>, <<"team">>, <<".", ".", "/", "x">> }
ProfileCodexValues == { Unset, <<" ">>, <<"old">>, <<"o", " ", "p">> }

CodexInputs ==
    [ provider : {"codex"}, flag : ProfileFlagValues,
      agent : ProfileAgentValues, codex : ProfileCodexValues,
      auth_file : {"missing", "unreadable", "ok"} ]

\* Lines 1024-1035.
CodexProfile(in) ==
    OrElse(trimmed_nonempty(in.flag),
           OrElse(trimmed_nonempty(in.agent), trimmed_nonempty(in.codex)))

Contains(s, c) == \E i \in 1..Len(s) : s[i] = c
ContainsDotDot(s) == \E i \in 1..(Len(s) - 1) : s[i] = "." /\ s[i + 1] = "."

\* Lines 1038-1040.
InvalidProfileNoDots(profile) ==
    Contains(profile, "/") \/ Contains(profile, " ")
InvalidProfile(profile) ==
    Contains(profile, "/") \/ ContainsDotDot(profile) \/ Contains(profile, " ")

ErrInvalidProfile == "error: invalid codex profile name"
ErrNoAuthFile == "error: codex auth file not found"
ErrReadAuthFile == "error: failed to read codex auth file"

\* Lines 1023-1049 and 1149-1168, up to ensure_container_running.
CodexDecide ==
    LET profile == CodexProfile(ain)
    IN  /\ aprofile' = profile
        /\ UNCHANGED << amode, atoken, asource, akey >>
        /\ IF profile # Unset
           THEN IF InvalidProfile(profile)
                THEN /\ apc' = "returned"
                     /\ acause' = "invalid_profile"
                     /\ aresult' = "EXIT_RUNTIME"
                     /\ aerr' = << ErrInvalidProfile >>
                ELSE /\ apc' = "ensure"
                     /\ acause' = "none"
                     /\ aresult' = "pending"
                     /\ aerr' = <<>>
           ELSE IF ain.auth_file # "ok"
                THEN /\ apc' = "returned"
                     /\ acause' = "no_auth_file"
                     /\ aresult' = "EXIT_RUNTIME"
                     /\ aerr' = << IF ain.auth_file = "missing"
                                   THEN ErrNoAuthFile ELSE ErrReadAuthFile >>
                ELSE /\ apc' = "ensure"
                     /\ acause' = "none"
                     /\ aresult' = "pending"
                     /\ aerr' = <<>>

KeyFlagValues == { Unset, <<" ">>, <<"K1">>, <<" ", "K1">> }
KeyAgentValues == { Unset, <<>>, <<"K2">> }
KeyCodexValues == { Unset, <<" ">>, <<"K3">> }

\* git config --global --get user.signingkey: whether git could be run,
\* whether it exited 0, and what it wrote.
GitConfigValues ==
    { [ran |-> FALSE, ok |-> FALSE, out |-> <<>>],
      [ran |-> TRUE, ok |-> FALSE, out |-> <<>>],
      [ran |-> TRUE, ok |-> TRUE, out |-> <<" ">>],
      [ran |-> TRUE, ok |-> TRUE, out |-> <<"K4", " ">>] }

GpgInputs ==
    [ provider : {"gpg"}, flag : KeyFlagValues, agent : KeyAgentValues,
      codex : KeyCodexValues, git_config : GitConfigValues,
      gpg_exists : BOOLEAN ]

\* Lines 2286-2307.
DefaultGpgSigningKeyLegacyFirst(in) ==
    IF trimmed_nonempty(in.codex) # Unset THEN trimmed_nonempty(in.codex)
    ELSE IF trimmed_nonempty(in.agent) # Unset THEN trimmed_nonempty(in.agent)
    ELSE IF in.git_config.ran /\ in.git_config.ok
    THEN trimmed_nonempty(in.git_config.out)
    ELSE Unset
default_gpg_signing_key(in) ==
    IF trimmed_nonempty(in.agent) # Unset THEN trimmed_nonempty(in.agent)
    ELSE IF trimmed_nonempty(in.codex) # Unset THEN trimmed_nonempty(in.codex)
    ELSE IF in.git_config.ran /\ in.git_config.ok
    THEN trimmed_nonempty(in.git_config.out)
    ELSE Unset

ErrMissingKey == "error: missing gpg signing key"
ErrNoGpg == "error: gpg not found on host (required to export secret key)"

\* Lines 1215-1237, up to ensure_container_running.
GpgDecide ==
    LET key == OrElse(trimmed_nonempty(ain.flag), default_gpg_signing_key(ain))
    IN  /\ akey' = key
        /\ UNCHANGED << amode, atoken, asource, aprofile >>
        /\ IF key = Unset
           THEN /\ apc' = "returned"
                /\ acause' = "missing_key"
                /\ aresult' = "EXIT_RUNTIME"
                /\ aerr' = << ErrMissingKey >>
           ELSE IF ~ain.gpg_exists
           THEN /\ apc' = "returned"
                /\ acause' = "no_gpg"
                /\ aresult' = "EXIT_RUNTIME"
                /\ aerr' = << ErrNoGpg >>
           ELSE /\ apc' = "ensure"
                /\ acause' = "none"
                /\ aresult' = "pending"
                /\ aerr' = <<>>

AuthInputs == GithubInputs \cup CodexInputs \cup GpgInputs

InitAuth ==
    /\ CmdIdle
    /\ CodexIdle
    /\ ArgsIdle
    /\ RepoIdle
    /\ NamesIdle
    /\ WorkIdle
    /\ CreateIdle
    /\ ResetIdle
    /\ CloneIdle
    /\ ain \in AuthInputs
    /\ aprov = ain.provider
    /\ cstate \in {"absent", "stopped", "running"}
    /\ apc = "idle"
    /\ amode = Unset
    /\ atoken = Unset
    /\ asource = "none"
    /\ aprofile = Unset
    /\ akey = Unset
    /\ alog = <<>>
    /\ aerr = <<>>
    /\ acause = "none"
    /\ aresult = "pending"
    /\ ctools \in IF aprov = "github" THEN {"gh", "git", "none"} ELSE {"gh"}
    /\ applied = FALSE

ErrNoContainer == "error: workspace container not found"

\* run_auth from line 864: the container is resolved, then the provider
\* runs up to its call of ensure_container_running.
AuthBegin ==
    /\ apc \in {"idle", "returned"}
    /\ alog' = <<>>
    /\ applied' = FALSE
    /\ UNCHANGED << aprov, ain, cstate, ctools >>
    /\ \/ \* lines 864-870: resolve_container_for_auth fails
          /\ amode' = Unset
          /\ atoken' = Unset
          /\ asource' = "none"
          /\ aprofile' = Unset
          /\ akey' = Unset
          /\ apc' = "returned"
          /\ acause' = "no_container"
          /\ aresult' = "EXIT_RUNTIME"
          /\ aerr' = << ErrNoContainer >>
       \/ /\ cstate # "absent"
          /\ \/ aprov = "github" /\ GithubDecide
             \/ aprov = "codex" /\ CodexDecide
             \/ aprov = "gpg" /\ GpgDecide

ErrContainer == "error: container could not be inspected or started"
ErrApply == "error: failed to apply"
WarnSync == "warn: failed to sync codex auth"
WarnVerify == "warn: gpg import completed but key lookup failed in container"

\* Lines 2006-2040, and the caller's `return EXIT_RUNTIME` on Err.
ensure_container_running ==
    /\ apc = "ensure"
    /\ UNCHANGED << aprov, ain, amode, atoken, asource, aprofile, akey,
                    ctools, applied >>
    /\ \/ \* lines 2007-2009, 2011-2021: not found, or docker inspect fails
          /\ UNCHANGED << cstate, alog >>
          /\ AFails("container", << ErrContainer >>)
       \/ \* lines 2023-2026
          /\ cstate = "running"
          /\ UNCHANGED << cstate, alog, aerr, acause, aresult >>
          /\ apc' = "apply"
       \/ \* lines 2028-2039: docker start
          /\ cstate = "stopped"
          /\ alog' = Append(alog, "start")
          /\ \/ /\ cstate' = "running"
                /\ apc' = "apply"
                /\ UNCHANGED << aerr, acause, aresult >>
             \/ /\ cstate' = cstate
                /\ AFails("container", << ErrContainer >>)

\* Lines 971-1020: the token is handed to a script run in the container.
GithubApply ==
    /\ apc = "apply"
    /\ aprov = "github"
    /\ alog' = Append(alog, "exec")
    /\ \/ \* lines 979-984: gh is there; its failures are ignored (|| true)
          /\ cstate = "running"
          /\ ctools = "gh"
          /\ applied' \in BOOLEAN
          /\ ASucceeds(<<>>)
       \/ \* lines 986-993: the token file and the credential helper
          /\ cstate = "running"
          /\ ctools = "git"
          /\ \/ applied' = TRUE /\ ASucceeds(<<>>)
             \/ applied' = FALSE /\ AFails("apply_failed", << ErrApply >>)
       \/ \* neither gh nor git: the script ends with status 0
          /\ cstate = "running"
          /\ ctools = "none"
          /\ applied' = FALSE
          /\ ASucceeds(<<>>)
       \/ \* lines 1012-1019: docker exec fails, or the token is not read
          /\ applied' = FALSE
          /\ AFails("apply_failed", << ErrApply >>)
    /\ UNCHANGED << aprov, ain, cstate, amode, atoken, asource, aprofile, akey,
                    ctools >>

\* Lines 1051-1105, 1144-1147: codex-use is run in the container.
CodexUse ==
    /\ apc = "apply"
    /\ aprov = "codex"
    /\ aprofile # Unset
    /\ \/ \* docker exec could not be spawned
          /\ alog' = alog
          /\ applied' = FALSE
          /\ AFails("apply_failed", << ErrApply >>)
       \/ /\ alog' = Append(alog, "exec")
          /\ \/ cstate = "running" /\ applied' = TRUE /\ ASucceeds(<<>>)
             \/ /\ apc' = "fallback"
                /\ applied' = FALSE
                /\ UNCHANGED << aerr, acause, aresult >>
    /\ UNCHANGED << aprov, ain, cstate, amode, atoken, asource, aprofile, akey,
                    ctools >>

\* Lines 1106-1143: the candidate files of the profile are built and the
\* first that can be read is synced into the container.
CodexFallback ==
    /\ apc = "fallback"
    /\ \/ \* no candidate is a readable file
          /\ alog' = Append(alog, "secret_path")
          /\ applied' = FALSE
          /\ AFails("apply_failed", << ErrApply >>)
       \/ /\ alog' = alog \o << "secret_path", "exec" >>
          /\ \/ cstate = "running" /\ applied' = TRUE /\ ASucceeds(<<>>)
             \/ applied' = FALSE
                /\ AFails("apply_failed", << WarnSync, ErrApply >>)
    /\ UNCHANGED << aprov, ain, cstate, amode, atoken, asource, aprofile, akey,
                    ctools >>

\* Lines 1170-1179: without a profile the auth file is synced.
CodexSync ==
    /\ apc = "apply"
    /\ aprov = "codex"
    /\ aprofile = Unset
    /\ alog' = Append(alog, "exec")
    /\ \/ cstate = "running" /\ applied' = TRUE /\ ASucceeds(<<>>)
       \/ applied' = FALSE /\ AFails("apply_failed", << ErrApply >>)
    /\ UNCHANGED << aprov, ain, cstate, amode, atoken, asource, aprofile, akey,
                    ctools >>

\* Lines 1239-1333: the key is exported on the host and imported in the
\* container, then looked up there.
GpgTransfer ==
    /\ apc = "apply"
    /\ aprov = "gpg"
    /\ \/ \* lines 1245-1251: gpg could not be spawned
          /\ alog' = alog
          /\ applied' = FALSE
          /\ AFails("apply_failed", << ErrApply >>)
       \/ \* lines 1317-1332: the export or the import fails
          /\ alog' = alog \o << "export", "import" >>
          /\ applied' = FALSE
          /\ AFails("apply_failed", << ErrApply >>)
       \/ \* lines 1291-1316: both succeed; the lookup may only warn
          /\ cstate = "running"
          /\ alog' = alog \o << "export", "import", "exec" >>
          /\ applied' = TRUE
          /\ \/ ASucceeds(<<>>)
             \/ ASucceeds(<< WarnVerify >>)
    /\ UNCHANGED << aprov, ain, cstate, amode, atoken, asource, aprofile, akey,
                    ctools >>

\* The container is stopped, removed or created by somebody else.
ContainerChanges ==
    /\ cstate' \in {"absent", "stopped", "running"} \ {cstate}
    /\ UNCHANGED << aprov, ain, apc, amode, atoken, asource, aprofile, akey,
                    alog, aerr, acause, aresult, ctools, applied >>

NextAuth ==
    /\ \/ AuthBegin
       \/ ensure_container_running
       \/ GithubApply
       \/ CodexUse
       \/ CodexFallback
       \/ CodexSync
       \/ GpgTransfer
       \/ ContainerChanges
    /\ UNCHANGED << resetVars, cloneVars, createVars, workVars, nameVars, repoVars, argVars, codexVars, cmdVars >>

SpecAuth == InitAuth /\ [][NextAuth]_vars

(***************************************************************************)
(* Properties of auth.  "Non-empty" is read as the code reads it           *)
(* everywhere else: set, and not only whitespace.                          *)
(***************************************************************************)
NonEmpty(v) == v # Unset /\ Trim(v) # <<>>

\* The first of the values that is non-empty, Unset when none is.
FirstNonEmpty(vs) ==
    IF \E i \in 1..Len(vs) : NonEmpty(vs[i])
    THEN vs[CHOOSE i \in 1..Len(vs) :
                NonEmpty(vs[i]) /\ \A j \in 1..(i - 1) : ~NonEmpty(vs[j])]
    ELSE Unset

\* The provider has run past its decision in the current run.
Decided(provider) ==
    aprov = provider /\ apc # "idle" /\ acause # "no_container"

Started == \E i \in 1..Len(alog) : alog[i] = "start"
RanInContainer == \E i \in 1..Len(alog) : alog[i] \in {"exec", "import"}
Warned == \E i \in 1..Len(aerr) : aerr[i] = WarnFallback

\* What the keyring probe yields, and what the env policy yields.
ProbeToken ==
    IF ain.probe.exists /\ ain.probe.ok /\ Trim(ain.probe.out) # <<>>
    THEN Trim(ain.probe.out)
    ELSE Unset
EnvPolicyToken == FirstNonEmpty(<< ain.gh_token, ain.github_token >>)

\* C7: in modes gh, keyring and auto (or unset) the keyring token is chosen
\* with source "gh" whenever the probe yields one, otherwise the env policy
\* applies (GH_TOKEN if non-empty, else GITHUB_TOKEN, source "env"); the
\* warning is printed exactly when the mode is gh or keyring and the probe
\* yielded no token; mode gh without a keyring token and GH_TOKEN=abc
\* resolves to (abc, env) with the warning.
C7_TokenPriority ==
    Decided("github") =>
       /\ amode \in { <<"gh">>, <<"keyring">>, Auto, <<>> } =>
             IF ProbeToken # Unset
             THEN atoken = ProbeToken /\ asource = "gh"
             ELSE atoken = EnvPolicyToken /\ asource = "env"
       /\ Warned <=> (amode \in { <<"gh">>, <<"keyring">> } /\ ProbeToken = Unset)
       /\ (amode = <<"gh">> /\ ProbeToken = Unset /\ ain.gh_token = <<"abc">>)
             => (atoken = <<"abc">> /\ asource = "env" /\ Warned)

\* Mode gh, no keyring token, GH_TOKEN=abc: the token is applied from the
\* environment after the warning.
C7_Witness ==
    /\ Decided("github")
    /\ amode = <<"gh">>
    /\ ProbeToken = Unset
    /\ ain.gh_token = <<"abc">>
    /\ atoken = <<"abc">> /\ asource = "env" /\ Warned
    /\ apc = "returned" /\ aresult = "0"

\* The mode C8 states: the first non-empty of AGENT_WORKSPACE_AUTH and
\* CODEX_WORKSPACE_AUTH, auto when both are unset or empty.
StatedMode ==
    IF FirstNonEmpty(<< ain.agent, ain.codex >>) = Unset
    THEN Auto
    ELSE FirstNonEmpty(<< ain.agent, ain.codex >>)

\* The token the stated mode selects.
StatedToken ==
    IF StatedMode = <<"env">> THEN EnvPolicyToken
    ELSE IF StatedMode \in { <<"gh">>, <<"keyring">>, Auto }
    THEN IF ProbeToken # Unset THEN ProbeToken ELSE EnvPolicyToken
    ELSE Unset

GithubRefused ==
    /\ apc = "returned"
    /\ acause \in {"unknown_mode", "mode_none", "no_token"}
    /\ aresult = "EXIT_RUNTIME"
    /\ ~Started
    /\ ~RanInContainer

\* C8: with the mode taken from the first non-empty of AGENT_WORKSPACE_AUTH
\* and CODEX_WORKSPACE_AUTH (auto when both are unset or empty), auth
\* github returns a runtime error without starting the container or
\* running anything in it when the mode is none or unknown or the policy
\* yields no token, and goes on to apply the token otherwise.
C8_ModeAndRefusal ==
    Decided("github") =>
       IF StatedToken = Unset
       THEN GithubRefused
       ELSE acause \notin {"unknown_mode", "mode_none", "no_token"}
                /\ atoken = StatedToken

\* The name C9 states: the first non-empty of the flag and the two
\* variables, without the whitespace around it.
StatedProfile ==
    Trim(FirstNonEmpty(<< ain.flag, ain.agent, ain.codex >>))

BadProfile(name) ==
    \/ \E i \in 1..Len(name) : name[i] \in {"/", " "}
    \/ \E i \in 1..(Len(name) - 1) : name[i] = "." /\ name[i + 1] = "."

\* C9: the profile is the first non-empty of the flag,
\* AGENT_WORKSPACE_CODEX_PROFILE and CODEX_WORKSPACE_CODEX_PROFILE; when it
\* contains "/", ".." or whitespace, auth codex returns a runtime error
\* having started no container, run nothing in it and built no secret-file
\* path from the name; a name without them is not rejected.
C9_ProfileGuard ==
    Decided("codex") =>
       /\ aprofile = StatedProfile
       /\ (StatedProfile # Unset /\ BadProfile(StatedProfile))
             => /\ apc = "returned"
                /\ acause = "invalid_profile"
                /\ aresult = "EXIT_RUNTIME"
                /\ alog = <<>>
       /\ acause = "invalid_profile"
             => (StatedProfile # Unset /\ BadProfile(StatedProfile))

\* A profile ".." taken from the flag has been rejected.
C9_Witness ==
    /\ Decided("codex")
    /\ ain.flag = <<".", ".">>
    /\ aprofile = <<".", ".">>
    /\ acause = "invalid_profile"
    /\ aresult = "EXIT_RUNTIME"

\* The key C10 states.
StatedKey ==
    Trim(FirstNonEmpty(<< ain.flag, ain.agent, ain.codex,
                          IF ain.git_config.ran /\ ain.git_config.ok
                          THEN ain.git_config.out ELSE Unset >>))

\* C10: the key is the --key value if non-empty, else
\* AGENT_WORKSPACE_GPG_KEY, else CODEX_WORKSPACE_GPG_KEY, else git's global
\* user.signingkey; when none yields a value auth gpg returns a runtime
\* error having started no container and exported and imported nothing.
C10_GpgKeyResolution ==
    Decided("gpg") =>
       /\ akey = StatedKey
       /\ StatedKey = Unset
             => /\ apc = "returned"
                /\ acause = "missing_key"
                /\ aresult = "EXIT_RUNTIME"
                /\ alog = <<>>
       /\ acause = "missing_key" => StatedKey = Unset

\* --key, both variables and user.signingkey are blank: the run has
\* returned the error.
C10_Witness ==
    /\ Decided("gpg")
    /\ ain.flag = <<" ">>
    /\ ain.agent = <<>>
    /\ ain.codex = <<" ">>
    /\ ain.git_config.out = <<" ">>
    /\ akey = Unset
    /\ acause = "missing_key"
    /\ aresult = "EXIT_RUNTIME"

\* C11: an auth command that returns 0 has put the credential in the
\* container.
C11_SuccessMeansApplied ==
    (aprov # "none" /\ apc = "returned" /\ aresult = "0") => applied

(***************************************************************************)
(* run_create (launcher.rs 240-334).                                       *)
(***************************************************************************)
\* Extra repositories one create is given at most.
MaxExtras == 2

\* str::trim_end_matches with a pattern of one or more lexemes.
RECURSIVE TrimEndMatches(_, _)
TrimEndMatches(s, pat) ==
    IF Len(s) >= Len(pat) /\ SubSeq(s, Len(s) - Len(pat) + 1, Len(s)) = pat
    THEN TrimEndMatches(SubSeq(s, 1, Len(s) - Len(pat)), pat)
    ELSE s

\* str::starts_with
StartsWith(s, p) == Len(s) >= Len(p) /\ SubSeq(s, 1, Len(p)) = p

\* str::strip_prefix: the rest after p, Unset when s does not start with p.
StripPrefix(s, p) ==
    IF StartsWith(s, p) THEN SubSeq(s, Len(p) + 1, Len(s)) ELSE Unset

\* str::ends_with
EndsWith(s, p) == Len(s) >= Len(p) /\ SubSeq(s, Len(s) - Len(p) + 1, Len(s)) = p

\* str::find: where pat first occurs in s, 0 when it does not.
FirstIndexOf(s, pat) ==
    LET at == { i \in 1..(Len(s) - Len(pat) + 1) :
                  SubSeq(s, i, i + Len(pat) - 1) = pat }
    IN  IF at = {} THEN 0 ELSE CHOOSE i \in at : \A j \in at : i <= j

\* str::split_once: whether pat occurs, what is before it and what is after.
HasSplit(s, pat) == FirstIndexOf(s, pat) # 0
SplitBefore(s, pat) == SubSeq(s, 1, FirstIndexOf(s, pat) - 1)
SplitAfter(s, pat) == SubSeq(s, FirstIndexOf(s, pat) + Len(pat), Len(s))

Slash == <<"/">>
Colon == <<":">>
DotGit == <<".", "git">>
SchemeSep == <<":", "/", "/">>
HttpScheme == <<"http", ":", "/", "/">>
HttpsScheme == <<"https", ":", "/", "/">>
GitAt == <<"git", "@">>
SshGitAt == <<"ssh", ":", "/", "/", "git", "@">>
GithubCom == <<"github", ".", "com">>

NoRepoSpec ==
    [valid |-> FALSE, owner |-> <<>>, repo |-> <<>>, owner_repo |-> <<>>,
     clone_url |-> <<>>]

\* Lines 399-442.  None is NoRepoSpec.
parse_repo_spec(input, default_host) ==
    LET cleaned == Trim(input)
        is_http == StartsWith(cleaned, HttpScheme) \/ StartsWith(cleaned, HttpsScheme)
        is_scp == ~is_http /\ StartsWith(cleaned, GitAt)
        is_ssh == ~is_http /\ ~is_scp /\ StartsWith(cleaned, SshGitAt)
        is_url == is_http \/ is_scp \/ is_ssh
        rest == IF is_http THEN SplitAfter(cleaned, SchemeSep)
                ELSE IF is_scp THEN StripPrefix(cleaned, GitAt)
                ELSE StripPrefix(cleaned, SshGitAt)
        sep == IF is_scp THEN Colon ELSE Slash
        host == IF is_url THEN SplitBefore(rest, sep) ELSE default_host
        parsed_owner_repo == IF is_url THEN SplitAfter(rest, sep) ELSE cleaned
        owner_repo == TrimEndMatches(TrimEndMatches(parsed_owner_repo, DotGit),
                                     Slash)
        owner == Trim(BeforeFirstSlash(owner_repo))
        repo == Trim(BeforeFirstSlash(AfterFirstSlash(owner_repo)))
    IN  IF cleaned = <<>> THEN NoRepoSpec
        ELSE IF is_url /\ ~HasSplit(rest, sep) THEN NoRepoSpec
        ELSE IF FirstSlash(owner_repo) = 0 \/ owner = <<>> \/ repo = <<>>
        THEN NoRepoSpec
        ELSE [valid |-> TRUE, owner |-> owner, repo |-> repo,
              owner_repo |-> owner \o Slash \o repo,
              clone_url |-> HttpsScheme \o host \o Slash \o owner \o Slash
                            \o repo \o DotGit]

ExtraRaws == { <<"o", "/", "a">>, <<"o", "/", "b", ".", "git">>, <<"bad">> }
PrivateRaws == { Unset, <<"o", "/", "p">>, <<"/", "p">> }

RECURSIVE SeqsUpTo(_, _)
SeqsUpTo(S, n) ==
    IF n = 0 THEN { <<>> }
    ELSE SeqsUpTo(S, n - 1) \cup
         { Append(q, x) : q \in { t \in SeqsUpTo(S, n - 1) : Len(t) = n - 1 },
                          x \in S }

CreateInputs ==
    [ show_help : BOOLEAN, no_extras : BOOLEAN, private : PrivateRaws,
      extras : SeqsUpTo(ExtraRaws, MaxExtras) ]

\* Exit codes of the low-level create.
PrimaryExitCodes == {"0", "1"}

\* Line 273: nothing more is done after the low-level create.
StopsAfterPrimaryHelpOnly(exit_code, in) == in.show_help
StopsAfterPrimary(exit_code, in) == exit_code # "0" \/ in.show_help

\* Line 277.
NothingSecondary(in) ==
    in.no_extras \/ (in.private = Unset /\ in.extras = <<>>)

Event(ev, raw, ok) == [ev |-> ev, raw |-> raw, ok |-> ok]

\* Lines 323-331: the loop goes on to the next extra whatever happened.
AfterExtraStopOnError(i, n, ok) == IF ok THEN i + 1 ELSE n + 1
AfterExtra(i, n, ok) == i + 1

InitCreate ==
    /\ CmdIdle
    /\ CodexIdle
    /\ ArgsIdle
    /\ RepoIdle
    /\ NamesIdle
    /\ WorkIdle
    /\ ResetIdle
    /\ CloneIdle
    /\ AuthIdle
    /\ crin \in CreateInputs
    /\ crcont \in {"absent", "stopped", "running"}
    /\ crpc = "idle"
    /\ cri = 1
    /\ crlog = <<>>
    /\ crresult = "pending"

CrReturns(code) ==
    /\ crpc' = "returned"
    /\ crresult' = code

\* Lines 240-302: the low-level create is run and its output relayed; the
\* workspace is looked for in its output, among the containers, by name.
CreateBegin ==
    /\ crpc = "idle"
    /\ UNCHANGED << crin, crcont, cri >>
    /\ \/ \* lines 258-261: the launcher could not be run
          /\ crlog' = << Event("create", << "spawn_error" >>, FALSE) >>
          /\ CrReturns("EXIT_RUNTIME")
       \/ \E code \in PrimaryExitCodes :
            /\ crlog' = << Event("create", << code >>, code = "0") >>
            /\ IF StopsAfterPrimary(code, crin)
               THEN CrReturns(code)
               ELSE IF NothingSecondary(crin)
               THEN CrReturns("0")
               ELSE crpc' = "ensure" /\ crresult' = "pending"
       \/ \* lines 299-302: no workspace name is found
          /\ ~StopsAfterPrimary("0", crin)
          /\ ~NothingSecondary(crin)
          /\ crlog' = << Event("create", << "0" >>, TRUE),
                         Event("warn_no_workspace", <<>>, FALSE) >>
          /\ CrReturns("0")

\* Lines 304-308, 2006-2040.
CreateEnsure ==
    /\ crpc = "ensure"
    /\ UNCHANGED << crin, cri >>
    /\ \/ \* not found, or docker inspect fails
          /\ crcont' = crcont
          /\ crlog' = Append(crlog, Event("warn_skipping", <<>>, FALSE))
          /\ CrReturns("0")
       \/ /\ crcont = "running"
          /\ UNCHANGED << crcont, crlog, crresult >>
          /\ crpc' = "private"
       \/ /\ crcont = "stopped"
          /\ \/ /\ crcont' = "running"
                /\ crlog' = Append(crlog, Event("start", <<>>, TRUE))
                /\ crpc' = "private"
                /\ crresult' = crresult
             \/ /\ crcont' = crcont
                /\ crlog' = crlog \o << Event("start", <<>>, FALSE),
                                        Event("warn_skipping", <<>>, FALSE) >>
                /\ CrReturns("0")

\* Lines 311-321.
CreatePrivate ==
    /\ crpc = "private"
    /\ crpc' = "extras"
    /\ UNCHANGED << crin, crcont, cri, crresult >>
    /\ IF crin.private = Unset
       THEN crlog' = crlog
       ELSE IF parse_repo_spec(crin.private, GithubCom).valid
       THEN \E ok \in BOOLEAN :
              crlog' = Append(crlog, Event("setup_private_repo", crin.private, ok))
       ELSE crlog' = Append(crlog, Event("warn_invalid", crin.private, FALSE))

\* Lines 323-331: one turn of the loop.
CreateExtra ==
    /\ crpc = "extras"
    /\ cri <= Len(crin.extras)
    /\ UNCHANGED << crin, crcont, crpc, crresult >>
    /\ IF parse_repo_spec(crin.extras[cri], GithubCom).valid
       THEN \E ok \in BOOLEAN :
              /\ crlog' = Append(crlog, Event("clone_extra_repo", crin.extras[cri], ok))
              /\ cri' = AfterExtra(cri, Len(crin.extras), ok)
       ELSE /\ crlog' = Append(crlog, Event("warn_invalid", crin.extras[cri], FALSE))
            /\ cri' = AfterExtra(cri, Len(crin.extras), FALSE)

\* Line 333.
CreateReturn ==
    /\ crpc = "extras"
    /\ cri > Len(crin.extras)
    /\ CrReturns("0")
    /\ UNCHANGED << crin, crcont, cri, crlog >>

NextCreate ==
    /\ \/ CreateBegin
       \/ CreateEnsure
       \/ CreatePrivate
       \/ CreateExtra
       \/ CreateReturn
    /\ UNCHANGED << resetVars, cloneVars, authVars, workVars, nameVars, repoVars, argVars, codexVars, cmdVars >>

SpecCreate == InitCreate /\ [][NextCreate]_vars

(***************************************************************************)
(* Properties of create.                                                   *)
(***************************************************************************)
\* The low-level create of the current run, once it has been run.
PrimaryDone == crpc # "idle"
PrimaryOk == crlog[1].ok

IsSecondary(e) == e.ev \in {"setup_private_repo", "clone_extra_repo", "warn_invalid"}
IsStartOrExec(e) == e.ev \in {"start", "setup_private_repo", "clone_extra_repo"}

\* The secondary repositories handled so far, in order, and all those asked
\* for: the private one first, then the extras as given.
Handled ==
    [i \in 1..Len(SelectSeq(crlog, IsSecondary)) |->
        SelectSeq(crlog, IsSecondary)[i].raw]
Asked ==
    (IF crin.private # Unset THEN << crin.private >> ELSE <<>>) \o crin.extras

IsSkipped(e) == e.ev \in {"warn_no_workspace", "warn_skipping"}
SecondarySkipped == SelectSeq(crlog, IsSkipped) # <<>>

\* C12: when the low-level create fails, create has returned that failure
\* (its exit code, or EXIT_RUNTIME when it could not be run) and has
\* handled no secondary repository and started no container.
C12_PrimaryFailureFatal ==
    (PrimaryDone /\ ~PrimaryOk) =>
       /\ crpc = "returned"
       /\ crresult # "0"
       /\ crresult = IF crlog[1].raw = << "spawn_error" >>
                     THEN "EXIT_RUNTIME" ELSE crlog[1].raw[1]
       /\ Len(crlog) = 1

\* The low-level create failed although a private repo and extras were
\* asked for.
C12_Witness ==
    /\ PrimaryDone /\ ~PrimaryOk
    /\ crin.private # Unset /\ crin.extras # <<>> /\ ~crin.no_extras
    /\ crresult = "1"

\* C13: once the low-level create succeeded, create returns 0; the
\* secondary repositories handled are the private one first and the extras
\* in argument order, each warned about when its spec is invalid and
\* attempted otherwise, and all of them are handled whatever the earlier
\* ones did, unless the workspace could not be found or started.
C13_SecondaryNonFatal ==
    (PrimaryDone /\ PrimaryOk) =>
       /\ crpc = "returned" => crresult = "0"
       /\ Len(Handled) <= Len(Asked)
       /\ Handled = SubSeq(Asked, 1, Len(Handled))
       /\ (crpc = "returned" /\ ~SecondarySkipped /\ ~crin.no_extras
              /\ ~crin.show_help)
             => Handled = Asked
       /\ \A i \in 1..Len(crlog) :
             /\ crlog[i].ev = "warn_invalid" => ~parse_repo_spec(crlog[i].raw, GithubCom).valid
             /\ crlog[i].ev = "setup_private_repo"
                   => (crlog[i].raw = crin.private /\ parse_repo_spec(crlog[i].raw, GithubCom).valid)
             /\ crlog[i].ev = "clone_extra_repo" => parse_repo_spec(crlog[i].raw, GithubCom).valid

\* The private repo failed, the first extra failed, the second extra was
\* still cloned, and create returned 0.
C13_Witness ==
    /\ PrimaryDone /\ PrimaryOk
    /\ crpc = "returned" /\ crresult = "0"
    /\ \E i, j, k \in 1..Len(crlog) :
          /\ i < j /\ j < k
          /\ crlog[i].ev = "setup_private_repo" /\ ~crlog[i].ok
          /\ crlog[j].ev = "clone_extra_repo" /\ ~crlog[j].ok
          /\ crlog[k].ev = "clone_extra_repo" /\ crlog[k].ok

(***************************************************************************)
(* run_reset_work_repos (launcher.rs 1419-1494), its argument parser       *)
(* (1720-1774) and LIST_GIT_REPOS_SCRIPT (76-98).  A number is modelled as *)
(* the sequence of its characters.                                         *)
(***************************************************************************)
\* Repositories a listing returns at most.
MaxRepos == 3

Digits == {"0", "1", "2", "3", "4", "5", "6", "7", "8", "9"}
DigitVal(d) ==
    CHOOSE i \in 0..9 :
        <<"0", "1", "2", "3", "4", "5", "6", "7", "8", "9">>[i + 1] = d

RECURSIVE StripZeros(_)
StripZeros(s) ==
    IF s # <<>> /\ Head(s) = "0" THEN StripZeros(Tail(s)) ELSE s

\* u32::MAX, 4294967295.
U32MaxDigits == <<"4", "2", "9", "4", "9", "6", "7", "2", "9", "5">>

\* a > b for digit sequences without leading zeros.
DigitsGreater(a, b) ==
    \/ Len(a) > Len(b)
    \/ /\ Len(a) = Len(b)
       /\ \E i \in 1..Len(a) :
            /\ DigitVal(a[i]) > DigitVal(b[i])
            /\ \A j \in 1..(i - 1) : a[j] = b[j]

\* str::parse::<u32> followed by to_string: an optional "+", then one or
\* more digits, the value at most u32::MAX.
ParseU32(s) ==
    LET body == IF s # <<>> /\ Head(s) = "+" THEN Tail(s) ELSE s
        digits == StripZeros(body)
    IN  IF body = <<>> \/ (\E i \in 1..Len(body) : body[i] \notin Digits)
           \/ DigitsGreater(digits, U32MaxDigits)
        THEN [ok |-> FALSE, value |-> <<>>]
        ELSE [ok |-> TRUE, value |-> IF digits = <<>> THEN <<"0">> ELSE digits]

\* Line 1708: the default depth.
DefaultDepth == <<"3">>

\* Line 1770.
DepthIsZeroNever(depth) == FALSE
DepthIsZero(depth) == depth = <<"0">>

\* Lines 1735-1744, 1755-1759, 1770-1772: parsed.depth, or the error.
ParseDepth(arg) ==
    IF arg = Unset THEN [ok |-> TRUE, value |-> DefaultDepth]
    ELSE IF ~ParseU32(arg).ok THEN [ok |-> FALSE, value |-> <<>>]
    ELSE IF DepthIsZero(ParseU32(arg).value) THEN [ok |-> FALSE, value |-> <<>>]
    ELSE ParseU32(arg)

\* Lines 82-85: the script's own test of $depth.
ScriptDepthOk(depth) ==
    /\ depth # <<>>
    /\ \A i \in 1..Len(depth) : depth[i] \in Digits
    /\ StripZeros(depth) # <<>>

DepthArgs ==
    { Unset, <<"0">>, <<"3">>, <<"0", "0">>, <<"0", "3">>, <<"-", "1">>,
      <<"+", "2">>, <<"+">>, <<"x">>, <<>>, <<" ", "3">>, <<"3", ".", "0">>,
      <<"4", "2", "9", "4", "9", "6", "7", "2", "9", "6">>,
      <<"4", "2", "9", "4", "9", "6", "7", "2", "9", "5">> }

WorkInputs ==
    [ depth : DepthArgs, yes : BOOLEAN, show_help : BOOLEAN,
      container : {Unset, <<"ws">>} ]

\* What the listing can return: sorted, without duplicates (sort -u).
Listings ==
    { q \in SeqsUpTo(1..MaxRepos, MaxRepos) :
        \A i \in 1..(Len(q) - 1) : q[i] < q[i + 1] }

ErrDepth == "error: --depth must be a positive integer"
ErrMissingContainer == "error: missing container"
ErrWorkContainer == "error: workspace container not found"
ErrList == "error: failed to list git repos"
WarnNoRepos == "warn: no git repos found"
ErrFailedCount(n) == << "error: failed to reset repo(s)", n >>

\* Lines 1485-1487.
CountFailureNever(failed, ok) == failed
CountFailure(failed, ok) == IF ok THEN failed ELSE failed + 1

WEvent(ev, repo, ok) == [ev |-> ev, repo |-> repo, ok |-> ok]

WReturns(code, msgs) ==
    /\ wpc' = "returned"
    /\ wresult' = code
    /\ werr' = werr \o msgs

InitWork ==
    /\ CmdIdle
    /\ CodexIdle
    /\ ArgsIdle
    /\ RepoIdle
    /\ NamesIdle
    /\ ResetIdle
    /\ CloneIdle
    /\ AuthIdle
    /\ CreateIdle
    /\ win \in WorkInputs
    /\ wcont \in {"absent", "stopped", "running"}
    /\ wpc = "idle"
    /\ wdepth = Unset
    /\ wrepos = <<>>
    /\ wi = 1
    /\ wfailed = 0
    /\ wlog = <<>>
    /\ werr = <<>>
    /\ wresult = "pending"

\* Lines 1419-1446: the arguments are parsed, then the container is looked
\* up.
WorkBegin ==
    /\ wpc = "idle"
    /\ UNCHANGED << win, wcont, wrepos, wi, wfailed >>
    /\ IF ~ParseDepth(win.depth).ok
       THEN /\ wdepth' = Unset
            /\ wlog' = wlog
            /\ WReturns("EXIT_RUNTIME", << ErrDepth >>)
       ELSE /\ wdepth' = ParseDepth(win.depth).value
            /\ IF win.show_help
               THEN wlog' = wlog /\ WReturns("0", <<>>)
               ELSE IF win.container = Unset
               THEN wlog' = wlog
                    /\ WReturns("EXIT_RUNTIME", << ErrMissingContainer >>)
               ELSE /\ wlog' = Append(wlog, WEvent("lookup", 0, wcont # "absent"))
                    /\ IF wcont = "absent"
                       THEN WReturns("EXIT_RUNTIME", << ErrWorkContainer >>)
                       ELSE /\ wpc' = "ensure"
                            /\ UNCHANGED << wresult, werr >>

\* Lines 1447-1450, 2006-2040.
WorkEnsure ==
    /\ wpc = "ensure"
    /\ UNCHANGED << win, wdepth, wrepos, wi, wfailed >>
    /\ \/ /\ UNCHANGED << wcont, wlog >>
          /\ WReturns("EXIT_RUNTIME", << ErrWorkContainer >>)
       \/ /\ wcont = "running"
          /\ wpc' = "list"
          /\ UNCHANGED << wcont, wlog, wresult, werr >>
       \/ /\ wcont = "stopped"
          /\ \/ /\ wcont' = "running"
                /\ wlog' = Append(wlog, WEvent("start", 0, TRUE))
                /\ wpc' = "list"
                /\ UNCHANGED << wresult, werr >>
             \/ /\ wcont' = wcont
                /\ wlog' = Append(wlog, WEvent("start", 0, FALSE))
                /\ WReturns("EXIT_RUNTIME", << ErrWorkContainer >>)

\* Lines 1452-1481: the listing script is run in the container; without
\* --yes the user is asked.
WorkList ==
    /\ wpc = "list"
    /\ UNCHANGED << win, wcont, wdepth, wi, wfailed >>
    /\ \/ \* docker exec fails, the script rejects $depth, or the root is
          \* not a directory
          /\ wrepos' = <<>>
          /\ wlog' = Append(wlog, WEvent("exec_list", 0, FALSE))
          /\ WReturns("EXIT_RUNTIME", << ErrList >>)
       \/ /\ ScriptDepthOk(wdepth)
          /\ wcont = "running"
          /\ \E repos \in Listings :
               /\ wrepos' = repos
               /\ wlog' = Append(wlog, WEvent("exec_list", 0, TRUE))
               /\ IF repos = <<>>
                  THEN WReturns("0", << WarnNoRepos >>)
                  ELSE \/ /\ wpc' = "loop"
                          /\ UNCHANGED << wresult, werr >>
                       \/ \* lines 1476-1479: the user does not confirm
                          /\ ~win.yes
                          /\ WReturns("EXIT_RUNTIME", <<>>)

\* Lines 1484-1488: one turn of the loop.
WorkReset ==
    /\ wpc = "loop"
    /\ wi <= Len(wrepos)
    /\ UNCHANGED << win, wcont, wpc, wdepth, wrepos, wresult, werr >>
    /\ \E ok \in BOOLEAN :
         /\ wlog' = Append(wlog, WEvent("reset", wrepos[wi], ok))
         /\ wfailed' = CountFailure(wfailed, ok)
         /\ wi' = wi + 1

\* Lines 1489-1493.
WorkReturn ==
    /\ wpc = "loop"
    /\ wi > Len(wrepos)
    /\ UNCHANGED << win, wcont, wdepth, wrepos, wi, wfailed, wlog >>
    /\ IF wfailed > 0
       THEN WReturns("EXIT_RUNTIME", << ErrFailedCount(wfailed) >>)
       ELSE WReturns("0", <<>>)

NextWork ==
    /\ \/ WorkBegin
       \/ WorkEnsure
       \/ WorkList
       \/ WorkReset
       \/ WorkReturn
    /\ UNCHANGED << resetVars, cloneVars, authVars, createVars, nameVars, repoVars, argVars, codexVars, cmdVars >>

SpecWork == InitWork /\ [][NextWork]_vars

(***************************************************************************)
(* Properties of reset work-repos.                                         *)
(***************************************************************************)
IsReset(e) == e.ev = "reset"
IsFailedReset(e) == e.ev = "reset" /\ ~e.ok

\* The repositories reset so far, in order, and how many resets failed.
ResetsDone ==
    [i \in 1..Len(SelectSeq(wlog, IsReset)) |-> SelectSeq(wlog, IsReset)[i].repo]
ResetsFailed == Len(SelectSeq(wlog, IsFailedReset))

\* The run went through the loop over the listed repositories and returned.
LoopCompleted ==
    wpc = "returned" /\ wrepos # <<>> /\ wi = Len(wrepos) + 1

\* C14: a reset work-repos that goes on to reset (with --yes or once
\* confirmed) attempts every listed repository exactly once, in listing
\* order, whatever the earlier ones returned; it returns EXIT_RUNTIME and
\* prints the number of failed repositories iff at least one reset failed,
\* and returns 0 iff all succeeded.
C14_PartialFailure ==
    /\ wpc = "loop" => ResetsDone = SubSeq(wrepos, 1, wi - 1)
    /\ LoopCompleted =>
          /\ ResetsDone = wrepos
          /\ (wresult = "EXIT_RUNTIME") <=> (ResetsFailed > 0)
          /\ (wresult = "0") <=> (ResetsFailed = 0)
          /\ ResetsFailed > 0 => werr = << ErrFailedCount(ResetsFailed) >>
          /\ ResetsFailed = 0 => werr = <<>>

\* The first reset failed, the later ones were still attempted, and the
\* failure of one repository was reported.
C14_Witness ==
    /\ LoopCompleted
    /\ Len(wrepos) >= 2
    /\ ~SelectSeq(wlog, IsReset)[1].ok
    /\ SelectSeq(wlog, IsReset)[2].ok
    /\ ResetsFailed = 1
    /\ wresult = "EXIT_RUNTIME"

\* A --depth value that is not a number (an optional sign, then digits
\* only) or that is not positive.
NotPositiveNumber(arg) ==
    LET signed == arg # <<>> /\ Head(arg) \in {"+", "-"}
        body == IF signed THEN Tail(arg) ELSE arg
    IN  \/ body = <<>>
        \/ \E i \in 1..Len(body) : body[i] \notin Digits
        \/ \A i \in 1..Len(body) : body[i] = "0"
        \/ Head(arg) = "-"

\* C15: a reset work-repos whose --depth is 0, not positive or not a
\* number returns the caller error having looked up, started and run
\* nothing.
C15_DepthRejectedFirst ==
    (wpc # "idle" /\ win.depth # Unset /\ NotPositiveNumber(win.depth)) =>
       /\ wpc = "returned"
       /\ wresult = "EXIT_RUNTIME"
       /\ werr = << ErrDepth >>
       /\ wlog = <<>>

\* --depth 0 on an existing, running workspace has been rejected.
C15_Witness ==
    /\ win.depth = <<"0">>
    /\ win.container # Unset
    /\ wcont = "running"
    /\ wpc = "returned"
    /\ wresult = "EXIT_RUNTIME"
    /\ wlog = <<>>

(***************************************************************************)
(* Workspace names (lines 1905-2004 and the --name arms of                 *)
(* parse_create_args, lines 166-199).  A name is a sequence of lexemes     *)
(* drawn from "agent", "codex", "ws", "-", " ", "/", ".", ":", "_" and the *)
(* letters "x", "y", "X".  No lexeme is the beginning of another one, so   *)
(* one text starts with another exactly when its lexemes start with the    *)
(* other's lexemes.                                                        *)
(***************************************************************************)
\* Prefix chunks a generated name starts with, at most.
MaxStrip == 2

Dash == <<"-">>
AgentWs == <<"agent", "-", "ws">>
CodexWs == <<"codex", "-", "ws">>
WsDash == <<"ws", "-">>

\* Lines 2328-2332.
push_unique(values, value) ==
    IF \E i \in 1..Len(values) : values[i] = value
    THEN values
    ELSE Append(values, value)

\* Lines 1933-1942: one environment variable, pushed when set and not blank.
PushEnvPrefix(prefixes, value) ==
    IF trimmed_nonempty(value) # Unset
    THEN push_unique(prefixes, trimmed_nonempty(value))
    ELSE prefixes

\* Lines 1931-1946.
workspace_prefixes(agent_prefix, codex_prefix) ==
    push_unique(
        push_unique(
            PushEnvPrefix(PushEnvPrefix(<<>>, agent_prefix), codex_prefix),
            AgentWs),
        CodexWs)

\* Lines 1959-1960 and 1968-1969: strip_prefix, kept only when something
\* other than whitespace remains.
StripNonBlank(current, prefix) == trimmed_nonempty(StripPrefix(current, prefix))

\* Lines 1957-1965: the first prefix of the list, from position i on, that
\* strips.
StripKnownPrefixLast(current, prefixes, i) ==
    IF \E k \in i..Len(prefixes) :
           StripNonBlank(current, prefixes[k] \o Dash) # Unset
    THEN StripNonBlank(
             current,
             prefixes[CHOOSE k \in i..Len(prefixes) :
                          /\ StripNonBlank(current, prefixes[k] \o Dash) # Unset
                          /\ \A j \in (k + 1)..Len(prefixes) :
                                StripNonBlank(current, prefixes[j] \o Dash)
                                    = Unset] \o Dash)
    ELSE Unset
RECURSIVE StripKnownPrefix(_, _, _)
StripKnownPrefix(current, prefixes, i) ==
    IF i > Len(prefixes) THEN Unset
    ELSE IF StripNonBlank(current, prefixes[i] \o Dash) # Unset
         THEN StripNonBlank(current, prefixes[i] \o Dash)
         ELSE StripKnownPrefix(current, prefixes, i + 1)

\* Lines 1967-1972: the literal "ws-", tried when no listed prefix stripped.
StripWsNever(current) == Unset
StripWs(current) == StripNonBlank(current, WsDash)

\* Lines 1955-1972: `stripped` of one turn of the loop.
Stripped(current, prefixes) ==
    OrElse(StripKnownPrefix(current, prefixes, 1), StripWs(current))

\* Lines 1954-1982.
RECURSIVE VariantsLoop(_, _, _)
VariantsLoop(variants, current, prefixes) ==
    LET next == Stripped(current, prefixes)
    IN  IF next = Unset THEN variants
        ELSE IF \E i \in 1..Len(variants) : variants[i] = next THEN variants
        ELSE VariantsLoop(Append(variants, next), next, prefixes)

\* Lines 1948-1985.
workspace_name_variants(input, prefixes) ==
    IF trimmed_nonempty(input) = Unset
    THEN <<>>
    ELSE VariantsLoop(<< trimmed_nonempty(input) >>, trimmed_nonempty(input),
                      prefixes)

\* Line 1990: variants.last(), Unset for an empty list.
FirstStripped(variants) ==
    IF variants = <<>> THEN Unset
    ELSE IF Len(variants) = 1 THEN variants[1] ELSE variants[2]
LastVariant(variants) ==
    IF variants = <<>> THEN Unset ELSE Last(variants)

\* Lines 1987-1994, with the prefixes workspace_prefixes() reads from the
\* environment.
normalize_workspace_name_for_create(name, prefixes) ==
    LET picked == OrElse(LastVariant(workspace_name_variants(name, prefixes)),
                         trimmed_nonempty(name))
    IN  IF picked = Unset THEN <<>> ELSE picked

\* Lines 1996-2004, over the containers docker has.
docker_container_exists(name, store) == name \in store

\* Lines 1918-1922.
PrefixedAsIs(workspace_name, prefix) == workspace_name
Prefixed(workspace_name, prefix) ==
    IF StartsWith(workspace_name, prefix \o Dash)
    THEN workspace_name
    ELSE prefix \o Dash \o workspace_name

\* Lines 1917-1926: the loop over the prefixes from position i on; Unset when
\* it ends without a return.
RECURSIVE ResolvePrefixed(_, _, _, _)
ResolvePrefixed(workspace_name, prefixes, store, i) ==
    IF i > Len(prefixes) THEN Unset
    ELSE IF docker_container_exists(Prefixed(workspace_name, prefixes[i]), store)
         THEN Prefixed(workspace_name, prefixes[i])
         ELSE ResolvePrefixed(workspace_name, prefixes, store, i + 1)

\* Lines 1911-1929.
resolve_workspace_container_name_str(workspace_name, prefixes, store) ==
    IF docker_container_exists(workspace_name, store)
    THEN workspace_name
    ELSE OrElse(ResolvePrefixed(workspace_name, prefixes, store, 1),
                workspace_name)

(***************************************************************************)
(* Inputs: names built from prefix chunks, a body and padding.             *)
(***************************************************************************)
Chunks == { AgentWs \o Dash, CodexWs \o Dash, WsDash, <<"x", "-">> }

RECURSIVE Flatten(_)
Flatten(ss) == IF ss = <<>> THEN <<>> ELSE Head(ss) \o Flatten(Tail(ss))

Heads == { Flatten(q) : q \in SeqsUpTo(Chunks, MaxStrip) }

Bodies ==
    { <<>>, <<" ">>, <<"x">>, <<"y">>, <<"X">>, <<"x", " ", "y">>,
      <<" ", "x">>, <<"x", "/", "y">>, <<"x", ".", "y">>, <<"x", ":", "y">>,
      <<"x", "_", "y">>, <<"x", "-", "y">>, <<"ws">>, AgentWs, <<"-">> }

Paddings == { <<>>, <<" ">> }

Names == { pad \o h \o b \o pad : pad \in Paddings, h \in Heads, b \in Bodies }

AgentPrefixValues ==
    { Unset, <<>>, <<" ", "x", " ">>, <<"y">>, CodexWs, <<"agent">> }
CodexPrefixValues == { Unset, <<"x">>, <<"ws">> }

NameForms == { "--name", "--name=" }

NameInputs ==
    [ name : Names, form : NameForms, agent_prefix : AgentPrefixValues,
      codex_prefix : CodexPrefixValues ]

\* The prefixes of the process.
NPrefixes == workspace_prefixes(nin.agent_prefix, nin.codex_prefix)

\* The value the --name arm hands to the normalisation: the next argument as
\* it is (line 172), or the text after "--name=", trimmed (line 191).
NameValue == IF nin.form = "--name=" THEN Trim(nin.name) ELSE nin.name

InitNames ==
    /\ CmdIdle
    /\ CodexIdle
    /\ ArgsIdle
    /\ RepoIdle
    /\ ResetIdle
    /\ CloneIdle
    /\ AuthIdle
    /\ CreateIdle
    /\ WorkIdle
    /\ nin \in NameInputs
    /\ nstore = {}
    /\ npc = "start"
    /\ nvariants = <<>>
    /\ nname = <<>>
    /\ nws = Unset
    /\ nfwd = <<>>
    /\ nname2 = <<>>
    /\ nres = <<>>
    /\ nfound = FALSE

\* Lines 166-178 and 189-198: the --name arms of parse_create_args.
ParseName ==
    /\ npc = "start"
    /\ nin.form \in NameForms
    /\ nvariants' = workspace_name_variants(NameValue, NPrefixes)
    /\ nname' = normalize_workspace_name_for_create(NameValue, NPrefixes)
    /\ nws' = trimmed_nonempty(nname')
    /\ nfwd' = IF nin.form = "--name="
               THEN << <<"--name=">> \o nname' >>
               ELSE << <<"--name">>, nname' >>
    /\ npc' = "normalized"
    /\ UNCHANGED << nin, nstore, nname2, nres, nfound >>

\* normalize_workspace_name_for_create applied to its own result.
NormalizeAgain ==
    /\ npc = "normalized"
    /\ nname2' = normalize_workspace_name_for_create(nname, NPrefixes)
    /\ npc' = "renormalized"
    /\ UNCHANGED << nin, nstore, nvariants, nname, nws, nfwd, nres, nfound >>

NextNames ==
    /\ \/ ParseName
       \/ NormalizeAgain
    /\ UNCHANGED << resetVars, cloneVars, authVars, createVars, workVars, repoVars, argVars, codexVars, cmdVars >>

SpecNames == InitNames /\ [][NextNames]_vars

(***************************************************************************)
(* Lookup: a name given to exec, rm, auth or reset, and the containers     *)
(* docker has.                                                             *)
(***************************************************************************)
LookupBodies == { <<"x">>, <<"y">>, <<" ", "x">>, <<"ws">>, AgentWs, <<"-">> }

LookupNames == { h \o b : h \in Heads, b \in LookupBodies }

LookupPrefixValues == { Unset, <<"y">> }

LookupInputs ==
    [ name : LookupNames, form : {"lookup"},
      agent_prefix : LookupPrefixValues, codex_prefix : {Unset, <<"x">>} ]

\* Names a container may have: the name, what stripping makes of it, and each
\* of those behind each prefix.
StoreNames(name, prefixes) ==
    LET vs == workspace_name_variants(name, prefixes)
        bare == {name} \cup { vs[i] : i \in 1..Len(vs) }
    IN  bare \cup { prefixes[j] \o Dash \o b : j \in 1..Len(prefixes), b \in bare }

\* No container, one, or two.
Stores(names) == { {a, b} : a \in names, b \in names } \cup { {} }

InitLookup ==
    /\ CmdIdle
    /\ CodexIdle
    /\ ArgsIdle
    /\ RepoIdle
    /\ ResetIdle
    /\ CloneIdle
    /\ AuthIdle
    /\ CreateIdle
    /\ WorkIdle
    /\ nin \in LookupInputs
    /\ nstore \in Stores(StoreNames(nin.name, NPrefixes))
    /\ npc = "start"
    /\ nvariants = <<>>
    /\ nname = <<>>
    /\ nws = Unset
    /\ nfwd = <<>>
    /\ nname2 = <<>>
    /\ nres = <<>>
    /\ nfound = FALSE

\* Lines 1911-1929, as called at lines 618, 1391, 1442, 1519, 1599 and 2044.
ResolveName ==
    /\ npc = "start"
    /\ nin.form = "lookup"
    /\ nres' = resolve_workspace_container_name_str(nin.name, NPrefixes, nstore)
    /\ npc' = "resolved"
    /\ UNCHANGED << nin, nstore, nvariants, nname, nws, nfwd, nname2, nfound >>

\* The caller's docker_container_exists of the resolved name (line 1392).
ResolvedExists ==
    /\ npc = "resolved"
    /\ nfound' = docker_container_exists(nres, nstore)
    /\ npc' = "checked"
    /\ UNCHANGED << nin, nstore, nvariants, nname, nws, nfwd, nname2, nres >>

NextLookup ==
    /\ \/ ResolveName
       \/ ResolvedExists
    /\ UNCHANGED << resetVars, cloneVars, authVars, createVars, workVars, repoVars, argVars, codexVars, cmdVars >>

SpecLookup == InitLookup /\ [][NextLookup]_vars

(***************************************************************************)
(* Properties of workspace names.                                          *)
(***************************************************************************)
LookedUp == npc \in {"resolved", "checked"}
Normalized == npc \in {"normalized", "renormalized"}

\* prefix-name, the way a container of the workspace is called.
Join(prefix, name) == prefix \o Dash \o name

\* A name that carries no prefix: neither one of the list nor the literal ws-.
BareName(n, prefixes) ==
    /\ n # <<>>
    /\ ~StartsWith(n, WsDash)
    /\ \A i \in 1..Len(prefixes) : ~StartsWith(n, prefixes[i] \o Dash)

\* C16: for a bare name n, the lookup of n returns n when docker has only n,
\* and returns p-n when docker has only p-n, for every prefix p of the list.
C16_BareAndPrefixedLookup ==
    (LookedUp /\ BareName(nin.name, NPrefixes)) =>
        /\ nstore = {nin.name} => nres = nin.name
        /\ \A i \in 1..Len(NPrefixes) :
              nstore = {Join(NPrefixes[i], nin.name)} =>
                  nres = Join(NPrefixes[i], nin.name)

\* A bare name was looked up while docker had only its form under a prefix
\* that is not the first of the list, and the lookup returned that form.
C16_Witness ==
    /\ npc = "resolved"
    /\ BareName(nin.name, NPrefixes)
    /\ \E i \in 2..Len(NPrefixes) :
          /\ nstore = {Join(NPrefixes[i], nin.name)}
          /\ nres = Join(NPrefixes[i], nin.name)

\* The candidates of a lookup in their order: the raw name, the variants the
\* stripping loop goes through, then each of those behind each prefix (left
\* as it is when it already starts with that prefix).
LookupCandidates(raw, prefixes) ==
    LET base == << raw >> \o workspace_name_variants(raw, prefixes)
        m == Len(prefixes)
        again == [ k \in 1..(Len(base) * m) |->
                     LET v == base[((k - 1) \div m) + 1]
                         p == prefixes[((k - 1) % m) + 1]
                     IN  IF StartsWith(v, p \o Dash) THEN v ELSE Join(p, v) ]
    IN  base \o again

\* Positions of the candidates docker has a container for.
ExistingCandidates(raw, prefixes, store) ==
    { i \in 1..Len(LookupCandidates(raw, prefixes)) :
        LookupCandidates(raw, prefixes)[i] \in store }

\* C17: the lookup returns the first candidate that exists, and returns a
\* name that does not exist only when no candidate exists.
C17_FirstExistingCandidate ==
    LookedUp =>
        LET hits == ExistingCandidates(nin.name, NPrefixes, nstore)
        IN  IF hits # {}
            THEN nres = LookupCandidates(nin.name, NPrefixes)[
                            CHOOSE i \in hits : \A j \in hits : i <= j]
            ELSE nres \notin nstore

\* C18: normalising a normalised name gives the same name.
C18_NormalizeIdempotent ==
    npc = "renormalized" => nname2 = nname

\* A name that lost two prefixes was normalised a second time.
C18_Witness ==
    /\ npc = "renormalized"
    /\ Len(nvariants) >= 3
    /\ nname2 = nname

\* C19 as stated: the normalised name starts with no prefix of the list
\* followed by "-", nor with "ws-".
C19_FullyStripped ==
    Normalized =>
        /\ ~StartsWith(nname, WsDash)
        /\ \A i \in 1..Len(NPrefixes) : ~StartsWith(nname, NPrefixes[i] \o Dash)

\* C19: the normalised name starts with a prefix of the list followed by "-",
\* or with "ws-", only when it is that prefix and dash and nothing more.
C19_StrippedWhileNameRemains ==
    Normalized =>
        /\ StartsWith(nname, WsDash) => nname = WsDash
        /\ \A i \in 1..Len(NPrefixes) :
              StartsWith(nname, NPrefixes[i] \o Dash) => nname = NPrefixes[i] \o Dash

\* A prefix was stripped and what is left is "ws-", which stays.
C19_Witness ==
    /\ npc = "normalized"
    /\ Len(nvariants) >= 2
    /\ nname = WsDash

\* What a slug is made of: lowercase letters and digits, "-" and "_".
SlugLexemes == { "agent", "codex", "ws", "x", "y", "-", "_" }

\* C20: the normalised name is not empty and is made of lowercase ASCII
\* letters and digits, "-" and "_" only.
C20_IsSlug ==
    Normalized =>
        /\ nname # <<>>
        /\ \A i \in 1..Len(nname) : nname[i] \in SlugLexemes

\* The prefix p strips from current: current starts with "p-" and something
\* other than whitespace follows.
StripsVia(current, p) ==
    /\ StartsWith(current, p \o Dash)
    /\ Trim(StripPrefix(current, p \o Dash)) # <<>>

\* What is removed from current in one turn: the first listed prefix that
\* strips, "ws" when none does and "ws-" strips, Unset when nothing strips.
PrefixToStrip(current, prefixes) ==
    IF \E i \in 1..Len(prefixes) : StripsVia(current, prefixes[i])
    THEN prefixes[CHOOSE i \in 1..Len(prefixes) :
                      /\ StripsVia(current, prefixes[i])
                      /\ \A j \in 1..(i - 1) : ~StripsVia(current, prefixes[j])]
    ELSE IF StripsVia(current, <<"ws">>) THEN <<"ws">>
    ELSE Unset

\* The parts of C28 that do not depend on how the remainder is written: the
\* chain is finite and without repeats, begins with the trimmed input, ends
\* where nothing strips any more, and the name of create is its last entry.
ChainShape ==
    /\ Trim(NameValue) = <<>> => nvariants = <<>> /\ nname = <<>>
    /\ Trim(NameValue) # <<>> =>
          /\ nvariants # <<>>
          /\ nvariants[1] = Trim(NameValue)
          /\ nname = Last(nvariants)
          /\ PrefixToStrip(Last(nvariants), NPrefixes) = Unset
    /\ \A i, j \in 1..Len(nvariants) : i < j => nvariants[i] # nvariants[j]
    /\ \A i \in 1..(Len(nvariants) - 1) :
          /\ PrefixToStrip(nvariants[i], NPrefixes) # Unset
          /\ Len(nvariants[i + 1]) < Len(nvariants[i])

\* C28 as stated: each variant after the first is the one before it with
\* exactly the leading "p-" removed.
C28_ExactPrefixRemoved ==
    Normalized =>
        /\ ChainShape
        /\ \A i \in 1..(Len(nvariants) - 1) :
              nvariants[i] =
                  PrefixToStrip(nvariants[i], NPrefixes) \o Dash
                      \o nvariants[i + 1]

\* C28: each variant after the first is the one before it with the leading
\* "p-" removed and what remains trimmed.
C28_PrefixRemovedAndTrimmed ==
    Normalized =>
        /\ ChainShape
        /\ \A i \in 1..(Len(nvariants) - 1) :
              nvariants[i + 1] =
                  Trim(StripPrefix(nvariants[i],
                                   PrefixToStrip(nvariants[i], NPrefixes)
                                       \o Dash))

\* agent-ws-ws-x-y with the prefixes agent-ws and codex-ws went through
\* ws-x-y to x-y.
C28_Witness ==
    /\ npc = "normalized"
    /\ NPrefixes = << AgentWs, CodexWs >>
    /\ nvariants = << AgentWs \o Dash \o WsDash \o <<"x", "-", "y">>,
                      WsDash \o <<"x", "-", "y">>,
                      <<"x", "-", "y">> >>
    /\ nname = <<"x", "-", "y">>

(***************************************************************************)
(* Repository references (parse_repo_spec, lines 399-442).  A reference is *)
(* written for a host, an owner and a repository in one of the forms the   *)
(* parser knows, with what people leave at its end.                        *)
(***************************************************************************)
RepoForms == { "bare", "https", "http", "scp", "ssh" }
RepoHosts == { GithubCom, <<"ghe">> }
RepoOwners == { <<"octo">>, <<"Octo">> }
RepoRepos == { <<"demo">>, <<"Demo">> }
RepoSuffixes ==
    { <<>>, DotGit, Slash, DotGit \o Slash, DotGit \o DotGit,
      <<"/", "tree">>, <<" ">> }

\* The text of a reference.
Render(form, host, owner, repo, suffix) ==
    LET path == owner \o Slash \o repo \o suffix
    IN  CASE form = "bare" -> path
          [] form = "https" -> HttpsScheme \o host \o Slash \o path
          [] form = "http" -> HttpScheme \o host \o Slash \o path
          [] form = "scp" -> GitAt \o host \o Colon \o path
          [] form = "ssh" -> SshGitAt \o host \o Slash \o path

\* Texts that name no owner or no repository.
Malformed ==
    { <<>>, <<" ">>, <<"octo">>, <<"/", "demo">>, <<"octo", "/">>,
      <<"octo", "/", " ">>, <<" ", "/", "demo">>, DotGit, <<"octo", "/", ".", "git">>,
      GitAt \o <<"ghe">>, GitAt \o <<"ghe", ":", "/", "demo">>,
      HttpsScheme \o <<"ghe">>, HttpsScheme \o <<"ghe", "/", "octo">>,
      HttpsScheme \o <<"ghe", "/", "/", "demo">>,
      SshGitAt \o <<"ghe">>, SshGitAt \o <<"ghe", "/", "octo", "/">> }

RepoInputs ==
    { [input |-> Render(f, h, o, r, x), default_host |-> d, form |-> f,
       host |-> h, owner |-> o, repo |-> r, suffix |-> x] :
        f \in RepoForms, h \in RepoHosts, o \in RepoOwners, r \in RepoRepos,
        x \in RepoSuffixes, d \in RepoHosts }
    \cup
    { [input |-> t, default_host |-> d, form |-> "malformed", host |-> <<>>,
       owner |-> <<>>, repo |-> <<>>, suffix |-> <<>>] :
        t \in Malformed, d \in RepoHosts }

InitRepo ==
    /\ CmdIdle
    /\ CodexIdle
    /\ ArgsIdle
    /\ ResetIdle
    /\ CloneIdle
    /\ AuthIdle
    /\ CreateIdle
    /\ WorkIdle
    /\ NamesIdle
    /\ pin \in RepoInputs
    /\ ppc = "start"
    /\ pspec = NoRepoSpec

\* Lines 312 and 324: the call of parse_repo_spec.
ParseRepoSpec ==
    /\ ppc = "start"
    /\ pspec' = parse_repo_spec(pin.input, pin.default_host)
    /\ ppc' = "parsed"
    /\ UNCHANGED pin

NextRepo ==
    /\ ParseRepoSpec
    /\ UNCHANGED << resetVars, cloneVars, authVars, createVars, workVars,
                    nameVars, argVars, codexVars, cmdVars >>

SpecRepo == InitRepo /\ [][NextRepo]_vars

(***************************************************************************)
(* Properties of parse_repo_spec.                                          *)
(***************************************************************************)
\* The host a reference names: its own, or the default one for OWNER/REPO.
NamedHost == IF pin.form = "bare" THEN pin.default_host ELSE pin.host

\* C21: every accepted reference to a repository, in whichever form, gives
\* the same owner/repo and the clone URL https://host/owner/repo.git.
C21_SameRepoSameSpec ==
    (ppc = "parsed" /\ pin.form \in RepoForms /\ pspec.valid) =>
        /\ pspec.owner_repo = pin.owner \o Slash \o pin.repo
        /\ pspec.clone_url = HttpsScheme \o NamedHost \o Slash \o pin.owner
                             \o Slash \o pin.repo \o DotGit

\* C22: a returned RepoSpec has an owner and a repo that are not empty and
\* keep their case, and a repo that ends neither in ".git" nor in "/"; a
\* text that names no owner or no repository gives None.
C22_StoredOwnerAndRepo ==
    ppc = "parsed" =>
        /\ pspec.valid =>
              /\ pspec.owner # <<>>
              /\ pspec.repo # <<>>
              /\ pspec.owner = pin.owner
              /\ StartsWith(pspec.repo, pin.repo)
              /\ ~EndsWith(pspec.repo, DotGit)
              /\ ~EndsWith(pspec.repo, Slash)
        /\ pin.form = "malformed" => ~pspec.valid

(***************************************************************************)
(* The create command line (parse_create_args, lines 129-223, and the      *)
(* launcher call of run_create, lines 240-260).  An argument is a text     *)
(* whose first lexeme is the option it spells, if it spells one.           *)
(***************************************************************************)
\* Items on a generated command line, at most.
MaxItems == 3

ErrMissingPrivate == <<"missing value for --private-repo">>
ErrMissingName == <<"missing value for --name">>
ErrNoWorkReposArgs == <<"--no-work-repos does not accept repo args">>

EmptyParsed ==
    [show_help |-> FALSE, no_extras |-> FALSE, no_work_repos |-> FALSE,
     private_repo |-> Unset, workspace_name |-> Unset, primary_repo |-> Unset,
     extra_repos |-> <<>>, forwarded_args |-> <<>>]

ParseErr(err) == [ok |-> FALSE, err |-> err, parsed |-> EmptyParsed]
ParseOk(parsed) == [ok |-> TRUE, err |-> <<>>, parsed |-> parsed]

\* Lexemes that begin with "-".
DashLexemes ==
    { "-", "-h", "--help", "--no-work-repos", "--no-extras", "--private-repo",
      "--private-repo=", "--name", "--name=", "--", "--other", "--no-clone" }

\* text.starts_with('-')
StartsWithDash(text) == text # <<>> /\ Head(text) \in DashLexemes

\* Line 218.
RejectsRepoArgsNever(parsed) == FALSE
RejectsRepoArgs(parsed) ==
    parsed.no_work_repos
    /\ (parsed.primary_repo # Unset \/ parsed.extra_repos # <<>>)

\* Lines 211-216: a positional argument.
TakePositional(parsed, text) ==
    IF parsed.primary_repo = Unset
    THEN [parsed EXCEPT !.primary_repo = text,
                        !.forwarded_args = Append(@, text)]
    ELSE [parsed EXCEPT !.extra_repos = Append(@, text)]

\* Lines 134-222: the loop from argument idx on, then the final check.
RECURSIVE ParseCreateLoop(_, _, _, _, _)
ParseCreateLoop(args, idx, positional_only, parsed, prefixes) ==
    IF idx > Len(args)
    THEN IF RejectsRepoArgs(parsed)
         THEN ParseErr(ErrNoWorkReposArgs)
         ELSE ParseOk(parsed)
    ELSE
    LET text == args[idx]
        Go(n, only, p) == ParseCreateLoop(args, n, only, p, prefixes)
    IN  IF positional_only
        THEN Go(idx + 1, TRUE, TakePositional(parsed, text))
        ELSE IF text \in { <<"-h">>, <<"--help">> }
        THEN Go(idx + 1, FALSE,
                [parsed EXCEPT !.show_help = TRUE,
                               !.forwarded_args = Append(@, text)])
        ELSE IF text = <<"--no-work-repos">>
        THEN Go(idx + 1, FALSE,
                [parsed EXCEPT !.no_work_repos = TRUE,
                               !.forwarded_args = Append(@, <<"--no-clone">>)])
        ELSE IF text = <<"--no-extras">>
        THEN Go(idx + 1, FALSE, [parsed EXCEPT !.no_extras = TRUE])
        ELSE IF text = <<"--private-repo">>
        THEN IF idx + 1 > Len(args)
             THEN ParseErr(ErrMissingPrivate)
             ELSE Go(idx + 2, FALSE,
                     [parsed EXCEPT
                        !.private_repo = trimmed_nonempty(args[idx + 1])])
        ELSE IF text = <<"--name">>
        THEN IF idx + 1 > Len(args)
             THEN ParseErr(ErrMissingName)
             ELSE LET normalized_name ==
                          normalize_workspace_name_for_create(args[idx + 1],
                                                              prefixes)
                  IN  Go(idx + 2, FALSE,
                         [parsed EXCEPT
                            !.workspace_name = trimmed_nonempty(normalized_name),
                            !.forwarded_args =
                                Append(Append(@, <<"--name">>), normalized_name)])
        ELSE IF text = <<"--">>
        THEN Go(idx + 1, TRUE,
                [parsed EXCEPT !.forwarded_args = Append(@, text)])
        ELSE IF StartsWith(text, <<"--private-repo=">>)
        THEN Go(idx + 1, FALSE,
                [parsed EXCEPT
                   !.private_repo = trimmed_nonempty(Trim(Tail(text)))])
        ELSE IF StartsWith(text, <<"--name=">>)
        THEN LET normalized_name ==
                     normalize_workspace_name_for_create(Trim(Tail(text)),
                                                         prefixes)
             IN  Go(idx + 1, FALSE,
                    [parsed EXCEPT
                       !.workspace_name = trimmed_nonempty(normalized_name),
                       !.forwarded_args =
                           Append(@, <<"--name=">> \o normalized_name)])
        ELSE IF StartsWithDash(text)
        THEN Go(idx + 1, FALSE,
                [parsed EXCEPT !.forwarded_args = Append(@, text)])
        ELSE Go(idx + 1, FALSE, TakePositional(parsed, text))

\* Lines 129-223, with the prefixes normalize_workspace_name_for_create
\* reads from the environment.
parse_create_args(args, prefixes) ==
    ParseCreateLoop(args, 1, FALSE, EmptyParsed, prefixes)

(***************************************************************************)
(* Command lines: items, each an option, an option with its value or a     *)
(* repository.                                                             *)
(***************************************************************************)
Item(kind, value) == [kind |-> kind, value |-> value]

CreateItems ==
    { Item("help", <<>>), Item("no_work_repos", <<>>), Item("no_extras", <<>>),
      Item("other", <<>>), Item("sep", <<>>),
      Item("private", <<"o", "/", "p">>), Item("private_eq", <<"o", "/", "p">>),
      Item("name", <<"ws", "-", "x">>), Item("name_eq", <<" ", "agent", "-", "ws", "-", "y">>),
      Item("pos", <<"o", "/", "a">>), Item("pos", <<"o", "/", "b">>) }

\* The arguments an item is written as.
ItemArgs(it) ==
    CASE it.kind = "help" -> << <<"--help">> >>
      [] it.kind = "no_work_repos" -> << <<"--no-work-repos">> >>
      [] it.kind = "no_extras" -> << <<"--no-extras">> >>
      [] it.kind = "other" -> << <<"--other">> >>
      [] it.kind = "sep" -> << <<"--">> >>
      [] it.kind = "private" -> << <<"--private-repo">>, it.value >>
      [] it.kind = "private_eq" -> << <<"--private-repo=">> \o it.value >>
      [] it.kind = "name" -> << <<"--name">>, it.value >>
      [] it.kind = "name_eq" -> << <<"--name=">> \o it.value >>
      [] it.kind = "pos" -> << it.value >>

RECURSIVE ItemsArgs(_)
ItemsArgs(items) ==
    IF items = <<>> THEN <<>> ELSE ItemArgs(Head(items)) \o ItemsArgs(Tail(items))

\* Items after "--" are repositories.
WellFormedItems(items) ==
    \A i \in 1..Len(items) : \A j \in 1..Len(items) :
        (items[i].kind = "sep" /\ i < j) => items[j].kind = "pos"

\* A command line, or one that ends in an option whose value is missing.
CommandLines ==
    LET lists == { q \in SeqsUpTo(CreateItems, MaxItems) : WellFormedItems(q) }
        plain == { q \in lists : \A i \in 1..Len(q) : q[i].kind # "sep" }
    IN  { [items |-> q, args |-> ItemsArgs(q)] : q \in lists }
        \cup { [items |-> q, args |-> Append(ItemsArgs(q), opt)] :
                 q \in { p \in plain : Len(p) < MaxItems },
                 opt \in { <<"--private-repo">>, <<"--name">> } }

\* The prefixes of the process: no prefix variable is set.
GPrefixes == workspace_prefixes(Unset, Unset)

InitArgs ==
    /\ CmdIdle
    /\ CodexIdle
    /\ ResetIdle
    /\ CloneIdle
    /\ AuthIdle
    /\ CreateIdle
    /\ WorkIdle
    /\ NamesIdle
    /\ RepoIdle
    /\ gin \in CommandLines
    /\ gpc = "start"
    /\ gparse = ParseErr(<<>>)
    /\ glaunch = <<>>
    /\ gresult = "pending"

\* Line 241: run_create parses its arguments.
CreateParse ==
    /\ gpc = "start"
    /\ gparse' = parse_create_args(gin.args, GPrefixes)
    /\ gpc' = "parsed"
    /\ UNCHANGED << gin, glaunch, gresult >>

\* Lines 243-246: the arguments were refused.
CreateRefuse ==
    /\ gpc = "parsed"
    /\ ~gparse.ok
    /\ gresult' = "EXIT_RUNTIME"
    /\ gpc' = "returned"
    /\ UNCHANGED << gin, gparse, glaunch >>

\* Lines 249-255: the launcher is invoked with the forwarded arguments.
CreateForward ==
    /\ gpc = "parsed"
    /\ gparse.ok
    /\ glaunch' = Append(glaunch, gparse.parsed.forwarded_args)
    /\ gpc' = "launched"
    /\ UNCHANGED << gin, gparse, gresult >>

NextArgs ==
    /\ \/ CreateParse
       \/ CreateRefuse
       \/ CreateForward
    /\ UNCHANGED << resetVars, cloneVars, authVars, createVars, workVars,
                    nameVars, repoVars, codexVars, cmdVars >>

SpecArgs == InitArgs /\ [][NextArgs]_vars

(***************************************************************************)
(* Properties of the create command line.                                  *)
(***************************************************************************)
HasKind(items, kinds) == \E i \in 1..Len(items) : items[i].kind \in kinds

\* Every option of the command line has its value.
Complete == gin.args = ItemsArgs(gin.items)

\* --no-work-repos together with a repository.
NoWorkReposWithRepo ==
    HasKind(gin.items, {"no_work_repos"}) /\ HasKind(gin.items, {"pos"})

\* What the launcher is to be given for the items: --no-clone for
\* --no-work-repos, nothing for --no-extras, --private-repo and the
\* repositories after the first, the first repository, the normalised name,
\* and every other option as it is.
RECURSIVE ExpectedForward(_, _)
ExpectedForward(items, seen_repo) ==
    IF items = <<>> THEN <<>>
    ELSE LET it == Head(items)
             name == normalize_workspace_name_for_create(it.value, GPrefixes)
             out == CASE it.kind = "no_work_repos" -> << <<"--no-clone">> >>
                      [] it.kind \in {"no_extras", "private", "private_eq"} -> <<>>
                      [] it.kind = "name" -> << <<"--name">>, name >>
                      [] it.kind = "name_eq" -> << <<"--name=">> \o name >>
                      [] it.kind = "pos" -> IF seen_repo THEN <<>> ELSE << it.value >>
                      [] OTHER -> ItemArgs(it)
         IN  out \o ExpectedForward(Tail(items), seen_repo \/ it.kind = "pos")

\* C23: the launcher gets --no-clone for --no-work-repos, never --no-extras,
\* --private-repo, its value or a repository after the first, and does get the
\* first repository and the normalised name; --no-work-repos with a
\* repository is refused and the launcher is not invoked.
C23_CreateTranslation ==
    /\ (gpc # "start" /\ Complete /\ ~NoWorkReposWithRepo) =>
          /\ gparse.ok
          /\ gparse.parsed.forwarded_args = ExpectedForward(gin.items, FALSE)
    /\ (gpc # "start" /\ Complete /\ NoWorkReposWithRepo) =>
          /\ ~gparse.ok
          /\ gpc # "launched"
          /\ glaunch = <<>>
    /\ gpc = "launched" => glaunch = << gparse.parsed.forwarded_args >>
    /\ gpc = "returned" => (glaunch = <<>> /\ gresult = "EXIT_RUNTIME")

\* The launcher was invoked for a command line with --private-repo and two
\* repositories, and was given the first repository only.
C23_Witness ==
    /\ gpc = "launched"
    /\ HasKind(gin.items, {"private", "private_eq"})
    /\ Len(gparse.parsed.extra_repos) = 1
    /\ glaunch = << << gparse.parsed.primary_repo >> >>

(***************************************************************************)
(* run_auth_codex with a profile (launcher.rs 1088-1148): codex-use in the *)
(* container, and when it fails the files of                               *)
(* resolve_codex_profile_auth_files (2245-2284) and                        *)
(* resolve_codex_auth_file (2231-2243), one after the other.  A path is a  *)
(* lexeme sequence with "/" and ".json" as lexemes of their own.           *)
(***************************************************************************)
\* Files that exist on the host in one run.
MaxFiles == 2

JsonExt == <<".json">>
HomeConfigSecrets == <<"/", ".config", "/", "codex_secrets">>
HomeSecrets == <<"/", "codex_secrets">>
HomeCodexAuth == <<"/", ".codex", "/", "auth", ".json">>
RootCodexAuth == <<"/", "root">> \o HomeCodexAuth
AgentSecretsDir == <<"/", "home", "/", "agent", "/", "codex_secrets">>
CodexSecretsDir == <<"/", "home", "/", "codex", "/", "codex_secrets">>
ZshKitSecretsDir ==
    <<"/", "opt", "/", "zsh-kit", "/", "scripts", "/", "_features", "/",
      "codex", "/", "secrets">>

\* `if let Ok(value) = std::env::var(..) && !value.trim().is_empty()`
SetAndNotBlank(value) == value # Unset /\ Trim(value) # <<>>

\* Lines 2231-2243.
resolve_codex_auth_file(auth_file, home) ==
    IF SetAndNotBlank(auth_file) THEN auth_file
    ELSE IF SetAndNotBlank(home) THEN home \o HomeCodexAuth
    ELSE RootCodexAuth

\* Lines 2251-2265: the directories, in the order they are pushed.
SecretDirs(secret_dir, home) ==
    (IF SetAndNotBlank(secret_dir) THEN << secret_dir >> ELSE <<>>)
    \o (IF SetAndNotBlank(home)
        THEN << home \o HomeConfigSecrets, home \o HomeSecrets >>
        ELSE <<>>)
    \o << AgentSecretsDir, CodexSecretsDir, ZshKitSecretsDir >>

\* Lines 2273-2276: the two files of one directory.
ProfileCandidates(base, profile) ==
    << base \o Slash \o profile \o JsonExt, base \o Slash \o profile >>

\* Lines 2267-2282: the loop over the directories.
RECURSIVE PushCandidates(_, _, _)
PushCandidates(out, dirs, profile) ==
    IF dirs = <<>> THEN out
    ELSE LET base == TrimEndMatches(Head(dirs), Slash)
             candidates == ProfileCandidates(base, profile)
         IN  IF base = <<>>
             THEN PushCandidates(out, Tail(dirs), profile)
             ELSE PushCandidates(
                      push_unique(push_unique(out, candidates[1]),
                                  candidates[2]),
                      Tail(dirs), profile)

\* Lines 2245-2284.
resolve_codex_profile_auth_files(profile, secret_dir, home) ==
    IF trimmed_nonempty(profile) = Unset THEN <<>>
    ELSE PushCandidates(<<>>, SecretDirs(secret_dir, home),
                        trimmed_nonempty(profile))

\* Lines 1107-1114.
FallbackFiles(in) ==
    LET fallback_files ==
            resolve_codex_profile_auth_files(in.profile, in.secret_dir, in.home)
        resolved_auth_file == resolve_codex_auth_file(in.auth_file, in.home)
    IN  IF \E i \in 1..Len(fallback_files) :
               fallback_files[i] = resolved_auth_file
        THEN fallback_files
        ELSE Append(fallback_files, resolved_auth_file)

\* Lines 1135: what the loop does after a sync that failed.
AfterSyncFailedGiveUp == "give_up"
AfterSyncFailed == "next_file"

Work == <<"work">>
SecretDirValues ==
    { Unset, <<" ">>, Slash, <<"/", "s", "/">>, AgentSecretsDir }
HomeValues == { Unset, <<" ">>, <<"/", "home", "/", "agent">> }
AuthFileValues ==
    { Unset, <<" ">>, <<"/", "s", "/", "work", ".json">>,
      <<"/", "a", ".json">> }

CodexEnvInputs ==
    [ profile : { Work }, secret_dir : SecretDirValues, home : HomeValues,
      auth_file : AuthFileValues ]

SeqRange(s) == { s[i] : i \in 1..Len(s) }

InitCodex ==
    /\ CmdIdle
    /\ ArgsIdle
    /\ RepoIdle
    /\ NamesIdle
    /\ WorkIdle
    /\ CreateIdle
    /\ AuthIdle
    /\ ResetIdle
    /\ CloneIdle
    /\ xin \in CodexEnvInputs
    /\ xexist \in { S \in SUBSET SeqRange(FallbackFiles(xin)) :
                      Cardinality(S) <= MaxFiles }
    /\ xunread \in SUBSET xexist
    /\ xpc = "codex_use"
    /\ xlist = <<>>
    /\ xidx = 0
    /\ xlog = <<>>
    /\ xchosen = Unset
    /\ xresult = "pending"

Opened(file, outcome) == [file |-> file, outcome |-> outcome]

\* Lines 1088-1114 and 1144-1147: docker exec of the codex-use script.
CodexUseProfile ==
    /\ xpc = "codex_use"
    /\ UNCHANGED << xin, xexist, xunread, xidx, xlog, xchosen >>
    /\ \/ \* lines 1100-1103: codex-use succeeded
          /\ xpc' = "returned"
          /\ xresult' = "0"
          /\ xlist' = xlist
       \/ \* lines 1144-1147: docker exec could not be spawned
          /\ xpc' = "returned"
          /\ xresult' = "EXIT_RUNTIME"
          /\ xlist' = xlist
       \/ \* lines 1106-1114: codex-use failed, the files are listed
          /\ xpc' = "files"
          /\ xresult' = xresult
          /\ xlist' = FallbackFiles(xin)

\* Index of the next entry of fallback_files that is a file, 0 when the
\* loop runs out (line 1117: `continue`).
UpcomingFile ==
    IF \E i \in (xidx + 1)..Len(xlist) : xlist[i] \in xexist
    THEN CHOOSE i \in (xidx + 1)..Len(xlist) :
             /\ xlist[i] \in xexist
             /\ \A j \in (xidx + 1)..(i - 1) : xlist[j] \notin xexist
    ELSE 0

\* Lines 1116-1143: the loop up to and including the next file it opens.
CodexTryFile ==
    /\ xpc = "files"
    /\ UNCHANGED << xin, xexist, xunread, xlist >>
    /\ IF UpcomingFile = 0
       THEN \* lines 1138-1143
            /\ xpc' = "returned"
            /\ xresult' = "EXIT_RUNTIME"
            /\ xidx' = Len(xlist)
            /\ UNCHANGED << xlog, xchosen >>
       ELSE LET auth_file == xlist[UpcomingFile]
            IN  IF auth_file \in xunread
                THEN \* lines 1133-1135: fs::read failed
                     /\ xlog' = Append(xlog, Opened(auth_file, "read_failed"))
                     /\ xidx' = UpcomingFile
                     /\ UNCHANGED << xpc, xchosen, xresult >>
                ELSE \/ \* lines 1122-1128: synced
                        /\ xlog' = Append(xlog, Opened(auth_file, "synced"))
                        /\ xidx' = UpcomingFile
                        /\ xchosen' = auth_file
                        /\ xpc' = "returned"
                        /\ xresult' = "0"
                     \/ \* line 1129: the sync failed
                        /\ xlog' = Append(xlog,
                                          Opened(auth_file, "sync_failed"))
                        /\ xidx' = UpcomingFile
                        /\ xchosen' = xchosen
                        /\ IF AfterSyncFailed = "next_file"
                           THEN UNCHANGED << xpc, xresult >>
                           ELSE xpc' = "returned" /\ xresult' = "EXIT_RUNTIME"

NextCodex ==
    /\ \/ CodexUseProfile
       \/ CodexTryFile
    /\ UNCHANGED << resetVars, cloneVars, authVars, createVars, workVars, nameVars, repoVars, argVars, cmdVars >>

SpecCodex == InitCodex /\ [][NextCodex]_vars

(***************************************************************************)
(* Properties of the codex file fallback.                                  *)
(***************************************************************************)
\* The directories the profile's files are looked up in, in their order:
\* CODEX_SECRET_DIR and the two under $HOME when the variable is set, then
\* the three fixed ones.
NamedDirs ==
    LET all == << [dir |-> xin.secret_dir, named |-> SetAndNotBlank(xin.secret_dir)],
                  [dir |-> xin.home \o HomeConfigSecrets,
                   named |-> SetAndNotBlank(xin.home)],
                  [dir |-> xin.home \o HomeSecrets,
                   named |-> SetAndNotBlank(xin.home)],
                  [dir |-> AgentSecretsDir, named |-> TRUE],
                  [dir |-> CodexSecretsDir, named |-> TRUE],
                  [dir |-> ZshKitSecretsDir, named |-> TRUE] >>
        IsNamed(d) == d.named
    IN  SelectSeq(all, IsNamed)

\* A directory value that is "/" only names no directory to look in.
IsRoot(d) == TrimEndMatches(d.dir, Slash) = <<>>
IsNotRoot(d) == ~IsRoot(d)

\* <dir>/<profile>.json then <dir>/<profile> for each directory in turn,
\* then the generic auth file; repeats not yet removed.
FilesNamed(dirs) ==
    [ i \in 1..(2 * Len(dirs) + 1) |->
        IF i = 2 * Len(dirs) + 1
        THEN IF SetAndNotBlank(xin.auth_file) THEN xin.auth_file
             ELSE IF SetAndNotBlank(xin.home) THEN xin.home \o HomeCodexAuth
             ELSE RootCodexAuth
        ELSE LET base == TrimEndMatches(dirs[(i + 1) \div 2].dir, Slash)
             IN  IF i % 2 = 1
                 THEN base \o Slash \o xin.profile \o JsonExt
                 ELSE base \o Slash \o xin.profile ]

FirstAt(s, e) == CHOOSE i \in 1..Len(s) : s[i] = e /\ \A j \in 1..(i - 1) : s[j] # e

\* list is full with every repeat removed, first occurrences kept in order.
IsDeduplicated(list, full) ==
    /\ SeqRange(list) = SeqRange(full)
    /\ \A i, j \in 1..Len(list) :
          i < j => list[i] # list[j] /\ FirstAt(full, list[i]) < FirstAt(full, list[j])

FallbackEntered == xpc = "files" \/ (xpc = "returned" /\ xlist # <<>>)

IsFile(path) == path \in xexist
Readable(path) == path \in xexist \ xunread
LogFiles == [ i \in 1..Len(xlog) |-> xlog[i].file ]

\* The first entry of list that is a readable file.
FirstReadable(list) ==
    list[CHOOSE i \in 1..Len(list) :
             Readable(list[i]) /\ \A j \in 1..(i - 1) : ~Readable(list[j])]

\* C27 as stated: after codex-use failed the files are the named ones in
\* order without repeats, the generic auth file last; the file chosen is the
\* first that exists and can be read, and the command fails only when no
\* listed file exists and can be read.
C27_FirstReadableFile ==
    FallbackEntered =>
        /\ IsDeduplicated(xlist, FilesNamed(NamedDirs))
        /\ (xpc = "returned" /\ xresult = "0") =>
              xchosen = FirstReadable(xlist)
        /\ (xpc = "returned" /\ xresult = "EXIT_RUNTIME") =>
              \A i \in 1..Len(xlist) : ~Readable(xlist[i])

\* C27: after codex-use failed the files tried are the named ones (root
\* directories left out) in order without repeats, the generic auth file
\* once and after every other file unless it is one of them; every file
\* that exists is opened in that order until one is read and synced, which
\* is the chosen one; the command fails only when none was read and synced.
C27_FirstSyncedFile ==
    FallbackEntered =>
        /\ IsDeduplicated(xlist, FilesNamed(SelectSeq(NamedDirs, IsNotRoot)))
        /\ LogFiles = SelectSeq(SubSeq(xlist, 1, xidx), IsFile)
        /\ \A i \in 1..Len(xlog) :
              /\ xlog[i].outcome = "read_failed" <=> xlog[i].file \in xunread
              /\ xlog[i].outcome = "synced" =>
                    i = Len(xlog) /\ xpc = "returned" /\ xresult = "0"
        /\ xpc = "files" => xchosen = Unset /\ xresult = "pending"
        /\ (xpc = "returned" /\ xresult = "0") =>
              /\ xlog # <<>>
              /\ Last(xlog) = Opened(xchosen, "synced")
        /\ (xpc = "returned" /\ xresult # "0") =>
              /\ xresult = "EXIT_RUNTIME"
              /\ xchosen = Unset
              /\ xidx = Len(xlist)
              /\ \A i \in 1..Len(xlist) :
                    IsFile(xlist[i]) =>
                        \E k \in 1..Len(xlog) :
                            /\ xlog[k].file = xlist[i]
                            /\ xlog[k].outcome \in {"read_failed", "sync_failed"}

\* The generic auth file was synced after the sync of a file of the
\* profile had failed, CODEX_SECRET_DIR naming one of the fixed directories.
C27_Witness ==
    /\ xpc = "returned"
    /\ xresult = "0"
    /\ Len(xlog) = 2
    /\ xlog[1].outcome = "sync_failed"
    /\ xchosen = Last(xlist)
    /\ xchosen = xin.home \o HomeCodexAuth
    /\ xin.secret_dir = AgentSecretsDir
    /\ Len(xlist) = 9

(***************************************************************************)
(* The subcommands that run something inside a workspace container:        *)
(* create (extras, launcher.rs 299-333), exec (617-660), auth (966, 1046,  *)
(* 1165, 1234) and the four resets (1361-1641), each over                  *)
(* ensure_container_running (2006-2040).  A reset asks before it resets    *)
(* (confirm_or_abort, 2309-2317).                                          *)
(***************************************************************************)
ResetCommands ==
    { "reset_repo", "reset_work_repos", "reset_opt_repos",
      "reset_private_repo" }

\* What each of the other subcommands runs in the container, in order.
BodyExecs ==
    [ create |-> { <<>>, << "setup_private_repo" >>, << "clone_extra_repo" >>,
                   << "setup_private_repo", "clone_extra_repo" >> },
      exec |-> { << "command" >> },
      auth_github |-> { << "gh_auth" >> },
      auth_codex |-> { << "codex_use" >>, << "codex_use", "sync" >>,
                       << "sync" >> },
      auth_gpg |-> { << "gpg_import" >>, << "gpg_import", "gpg_list" >> } ]

\* A line as read_line returns it: the answer, then the line end (a
\* whitespace lexeme); nothing at the end of input; Unset when the read
\* fails.
AnswerLines ==
    { Unset, <<>>, <<" ">>, <<"y", " ">>, <<"Y", " ">>, <<" ", "y", " ">>,
      <<"y">>, <<"yes", " ">>, <<"y", "y", " ">>, <<"n", " ">>,
      <<"N", " ">> }

YesFlags == { "", "--yes", "-y" }

WorkDir == <<"/", "work", "/", "repo">>
OptDirs == << <<"/", "opt", "/", "codex-kit">>, <<"/", "opt", "/", "zsh-kit">> >>
PrivateDir == <<"/", "home", "/", "agent", "/", ".private">>
CmdListings == { <<>>, << WorkDir >>, << WorkDir, PrivateDir >> }

Containers == { <<"ws", "-", "x">>, AgentWs \o Dash \o <<"x">> }

CmdInputs ==
    { [cmd |-> c, container |-> n, execs |-> e, yes |-> "",
       answer |-> Unset, listing |-> <<>>] :
        c \in DOMAIN BodyExecs, n \in Containers,
        e \in UNION { BodyExecs[b] : b \in DOMAIN BodyExecs } }
    \cup
    [ cmd : ResetCommands, container : Containers, execs : { <<>> },
      yes : YesFlags, answer : AnswerLines, listing : CmdListings ]

InitCmd ==
    /\ CodexIdle
    /\ ArgsIdle
    /\ RepoIdle
    /\ NamesIdle
    /\ WorkIdle
    /\ CreateIdle
    /\ AuthIdle
    /\ ResetIdle
    /\ CloneIdle
    /\ din \in CmdInputs
    /\ din.cmd \in DOMAIN BodyExecs => din.execs \in BodyExecs[din.cmd]
    /\ din.cmd # "reset_work_repos" => din.listing = <<>>
    /\ dstate \in { "absent", "stopped", "running" }
    /\ dpc = "start"
    /\ dseen = "none"
    /\ densured = Unset
    /\ drepos = <<>>
    /\ di = 0
    /\ dfailed = 0
    /\ dasked = FALSE
    /\ dlog = <<>>
    /\ dresult = "pending"

Docker(op, container, what, dir) ==
    [op |-> op, container |-> container, what |-> what, dir |-> dir]
Exec(container, what, dir) == Docker("exec", container, what, dir)

CmdReturns(code) ==
    /\ dpc' = "returned"
    /\ dresult' = code

\* Lines 1392-1395 (and 1443, 1520, 1600): a reset stops when docker does
\* not have the container; the others go on to ensure_container_running.
CmdStart ==
    /\ dpc = "start"
    /\ UNCHANGED << din, dstate, dseen, densured, drepos, di, dfailed, dasked,
                    dlog >>
    /\ IF din.cmd \in ResetCommands /\ dstate = "absent"
       THEN CmdReturns("EXIT_RUNTIME")
       ELSE dpc' = "ensure" /\ dresult' = dresult

\* What a subcommand does when ensure_container_running returned Err:
\* lines 304-308 (create warns and returns 0), 620-623 and the others.
OnEnsureErrGoOn(cmd) == "go_on"
OnEnsureErr(cmd) == IF cmd = "create" THEN "0" ELSE "EXIT_RUNTIME"

\* Where a subcommand goes after ensure_container_running returned Ok.
AfterEnsure(cmd) ==
    IF cmd \in { "reset_work_repos", "reset_private_repo" } THEN "probe"
    ELSE IF cmd \in ResetCommands THEN "confirm"
    ELSE "body"

\* Lines 1401-1402 and 1529-1531: the repositories known before any probe.
KnownRepos(in) ==
    IF in.cmd = "reset_repo" THEN << WorkDir >>
    ELSE IF in.cmd = "reset_opt_repos" THEN OptDirs
    ELSE <<>>

\* Lines 2006-2040 with the caller's handling of Err.
EnsureRunning ==
    /\ dpc = "ensure"
    /\ dseen' = dstate
    /\ UNCHANGED << din, di, dfailed, dasked >>
    /\ LET ok(log, state) ==
               /\ dlog' = log
               /\ dstate' = state
               /\ densured' = din.container
               /\ drepos' = KnownRepos(din)
               /\ dpc' = AfterEnsure(din.cmd)
               /\ dresult' = dresult
           err(log) ==
               /\ dlog' = log
               /\ dstate' = dstate
               /\ densured' = densured
               /\ drepos' = IF OnEnsureErr(din.cmd) = "go_on"
                            THEN KnownRepos(din) ELSE drepos
               /\ IF OnEnsureErr(din.cmd) = "go_on"
                  THEN dpc' = AfterEnsure(din.cmd) /\ dresult' = dresult
                  ELSE CmdReturns(OnEnsureErr(din.cmd))
           inspect == Docker("inspect", din.container, "running", <<>>)
           start == Docker("start", din.container, "start", <<>>)
       IN  \/ \* lines 2007-2009
              /\ dstate = "absent"
              /\ err(dlog)
           \/ \* lines 2011-2021: docker inspect fails
              /\ dstate # "absent"
              /\ err(Append(dlog, inspect))
           \/ \* lines 2023-2026
              /\ dstate = "running"
              /\ ok(Append(dlog, inspect), dstate)
           \/ \* lines 2028-2033: docker start succeeds
              /\ dstate = "stopped"
              /\ ok(dlog \o << inspect, start >>, "running")
           \/ \* lines 2034-2039: docker start fails
              /\ dstate = "stopped"
              /\ err(dlog \o << inspect, start >>)

\* Lines 310-333, 629-660, 971-1020, 1088-1180, 1274-1333: the commands of
\* a subcommand that is not a reset, one per step; what they return does
\* not stop the ones after them here.
RunInContainer ==
    /\ dpc = "body"
    /\ UNCHANGED << din, dstate, dseen, densured, drepos, dfailed, dasked >>
    /\ IF di < Len(din.execs)
       THEN /\ dlog' = Append(dlog, Exec(din.container, din.execs[di + 1], <<>>))
            /\ di' = di + 1
            /\ UNCHANGED << dpc, dresult >>
       ELSE /\ UNCHANGED << dlog, di >>
            /\ \E code \in { "0", "EXIT_RUNTIME" } :
                  /\ (din.cmd = "create" => code = "0")
                  /\ CmdReturns(code)

\* Lines 1452-1466 (list_git_repos_in_container) and 1609-1622
\* (detect_private_repo_dir).
ProbeRepos ==
    /\ dpc = "probe"
    /\ UNCHANGED << din, dstate, dseen, densured, di, dfailed, dasked >>
    /\ dlog' = Append(dlog,
                      Exec(din.container,
                           IF din.cmd = "reset_work_repos"
                           THEN "list_git_repos" ELSE "detect_private_repo_dir",
                           <<>>))
    /\ \/ \* the probe fails
          /\ drepos' = drepos
          /\ CmdReturns("EXIT_RUNTIME")
       \/ \* nothing found: a warning, and 0
          /\ din.cmd = "reset_work_repos" => din.listing = <<>>
          /\ drepos' = drepos
          /\ CmdReturns("0")
       \/ /\ din.cmd = "reset_work_repos" => din.listing # <<>>
          /\ drepos' = IF din.cmd = "reset_work_repos"
                       THEN din.listing ELSE << PrivateDir >>
          /\ dpc' = "confirm"
          /\ dresult' = dresult

\* Lines 2309-2317: the answer line, Unset when read_line failed.
ConfirmAnyY(answer) == answer # Unset /\ Trim(answer) # <<>> /\ Head(Trim(answer)) \in {"y", "Y", "yes"}
confirm_or_abort(answer) ==
    answer # Unset /\ Trim(answer) \in { <<"y">>, <<"Y">> }

\* Lines 1401-1408, 1468-1480, 1527-1536, 1624-1631.
Confirm ==
    /\ dpc = "confirm"
    /\ UNCHANGED << din, dstate, dseen, densured, drepos, di, dfailed, dlog >>
    /\ IF din.yes \in { "-y", "--yes" }
       THEN /\ dasked' = dasked
            /\ dpc' = "reset"
            /\ dresult' = dresult
       ELSE /\ dasked' = TRUE
            /\ IF confirm_or_abort(din.answer)
               THEN dpc' = "reset" /\ dresult' = dresult
               ELSE CmdReturns("EXIT_RUNTIME")

\* Lines 1410-1416, 1482-1493, 1538-1573, 1633-1639: the next repository
\* of the loop, with container_has_git_repo before it in reset opt-repos.
ResetNext ==
    /\ dpc = "reset"
    /\ UNCHANGED << din, dstate, dseen, densured, drepos, dasked >>
    /\ IF di < Len(drepos)
       THEN LET repo == drepos[di + 1]
                has == Exec(din.container, "container_has_git_repo", repo)
                reset == Exec(din.container, "reset_repo", repo)
                before == IF din.cmd = "reset_opt_repos"
                          THEN Append(dlog, has) ELSE dlog
            IN  /\ di' = di + 1
                /\ \/ \* lines 1541-1546: the test could not be run
                      /\ din.cmd = "reset_opt_repos"
                      /\ dlog' = before
                      /\ dfailed' = dfailed
                      /\ CmdReturns("EXIT_RUNTIME")
                   \/ \* line 1547: no repository there
                      /\ din.cmd = "reset_opt_repos"
                      /\ dlog' = before
                      /\ UNCHANGED << dfailed, dpc, dresult >>
                   \/ \* the reset succeeds
                      /\ dlog' = Append(before, reset)
                      /\ UNCHANGED << dfailed, dpc, dresult >>
                   \/ \* the reset fails
                      /\ dlog' = Append(before, reset)
                      /\ IF din.cmd = "reset_work_repos"
                         THEN /\ dfailed' = dfailed + 1
                              /\ UNCHANGED << dpc, dresult >>
                         ELSE /\ dfailed' = dfailed
                              /\ CmdReturns("EXIT_RUNTIME")
       ELSE /\ UNCHANGED << di, dfailed >>
            /\ dlog' = IF din.cmd = "reset_opt_repos"
                       THEN Append(dlog, Exec(din.container, "rsync", <<>>))
                       ELSE dlog
            /\ CmdReturns(IF dfailed > 0 THEN "EXIT_RUNTIME" ELSE "0")

\* The container is stopped, removed or started by somebody else.
CmdContainerChanges ==
    /\ dpc # "returned"
    /\ dstate' \in { "absent", "stopped", "running" } \ { dstate }
    /\ UNCHANGED << din, dpc, dseen, densured, drepos, di, dfailed, dasked,
                    dlog, dresult >>

NextCmd ==
    /\ \/ CmdStart
       \/ EnsureRunning
       \/ RunInContainer
       \/ ProbeRepos
       \/ Confirm
       \/ ResetNext
       \/ CmdContainerChanges
    /\ UNCHANGED << resetVars, cloneVars, authVars, createVars, workVars, nameVars, repoVars, argVars, codexVars >>

SpecCmd == InitCmd /\ [][NextCmd]_vars

(***************************************************************************)
(* Properties of the subcommands.                                          *)
(***************************************************************************)
IsDockerExec(i) == dlog[i].op = "exec"
IsDockerStart(i) == dlog[i].op = "start"
IsResetExec(i) == dlog[i].op = "exec" /\ dlog[i].what = "reset_repo"

\* C29: every command run in a container comes after
\* ensure_container_running returned Ok for that container; when it found
\* no container it failed and nothing was started, when it found the
\* container running nothing was started, and never more than one start is
\* issued.
C29_ExecOnlyAfterEnsured ==
    /\ \A i \in 1..Len(dlog) :
          IsDockerExec(i) => densured # Unset /\ dlog[i].container = densured
    /\ densured # Unset => densured = din.container /\ dseen \in { "stopped", "running" }
    /\ dseen = "absent" =>
          /\ densured = Unset
          /\ \A i \in 1..Len(dlog) : ~IsDockerStart(i)
    /\ dseen = "running" => \A i \in 1..Len(dlog) : ~IsDockerStart(i)
    /\ (dseen = "stopped" /\ densured # Unset) =>
          \E i \in 1..Len(dlog) : IsDockerStart(i) /\ \A k \in 1..Len(dlog) : IsDockerExec(k) => i < k
    /\ \A i, j \in 1..Len(dlog) : (IsDockerStart(i) /\ IsDockerStart(j)) => i = j

\* reset work-repos listed and reset two repositories in a container that
\* ensure_container_running had to start.
C29_Witness ==
    /\ dpc = "returned"
    /\ din.cmd = "reset_work_repos"
    /\ dseen = "stopped"
    /\ densured = din.container
    /\ Len(dlog) = 5
    /\ IsDockerStart(2)
    /\ IsResetExec(4) /\ IsResetExec(5)

\* The operator agreed: --yes or -y, or the answer y or Y.
Consented ==
    \/ din.yes \in { "--yes", "-y" }
    \/ din.answer # Unset /\ Trim(din.answer) \in { <<"y">>, <<"Y">> }

\* C30: a repository is reset only with --yes/-y or after the answer y or
\* Y; after any other answer, or none that could be read, the reset
\* returned a failure and reset nothing.
C30_NoResetWithoutConsent ==
    /\ (\E i \in 1..Len(dlog) : IsResetExec(i)) =>
          din.cmd \in ResetCommands /\ Consented
    /\ dasked => din.yes = ""
    /\ (dasked /\ ~Consented) =>
          /\ dpc = "returned"
          /\ dresult = "EXIT_RUNTIME"
          /\ \A i \in 1..Len(dlog) : ~IsResetExec(i)
    /\ (dpc = "reset" /\ ~dasked) => din.yes \in { "--yes", "-y" }

\* reset opt-repos was answered "yes", which is not y: it returned a
\* failure without testing or resetting a repository.
C30_Witness ==
    /\ dpc = "returned"
    /\ din.cmd = "reset_opt_repos"
    /\ dasked
    /\ din.answer = <<"yes", " ">>
    /\ dresult = "EXIT_RUNTIME"
    /\ densured # Unset
    /\ \A i \in 1..Len(dlog) : ~IsDockerExec(i)

====
